---- MODULE Spec2Model ----
(***************************************************************************)
(* Model of the client-side pipeline of the carousel image gallery:        *)
(*   - HttpClient (frontend/assets/js/api.js): request pipeline with       *)
(*     interceptors, a timeout and retries with exponential backoff;       *)
(*   - UploadManager (frontend/assets/js/upload.js): the upload queue;     *)
(*   - CacheManager (frontend/assets/js/api.js): the response cache, with  *)
(*     a capacity of maxSize entries and a clock that advances in ticks.   *)
(*   - ApiService (frontend/assets/js/api.js): the endpoint methods, the   *)
(*     token store and its two interceptors;                               *)
(*   - GalleryManager (frontend/assets/js/gallery.js): pages, search, sort *)
(*     and deletion;                                                       *)
(*   - ModalManager (frontend/assets/js/api.js): the active overlay and    *)
(*     the timers of open and close.                                       *)
(* Every await of the source is a suspension point: the code between two   *)
(* awaits is one action, and other handlers may run between two actions.   *)
(* Interceptors are callbacks that return normally, as the two registered  *)
(* by ApiService.setupInterceptors do.  The timeout of a request may run    *)
(* out at any moment while its timer is armed.                             *)
(***************************************************************************)
EXTENDS Integers, Sequences, FiniteSets, TLC

\* ===== bounds of the model =====
\* largest retryAttempts value handed to the HttpClient constructor
MaxRetryCfg == 3

\* largest number of files that pass validation in one run
MaxFiles == 2
\* largest number of batches started in one run
MaxBatches == 2
\* largest queue a run of the batch specification starts with
MaxQueued == 3
\* capacity of the cache that is checked (this.maxSize, 100 in api.js:503)
maxSize == 3
\* largest number of times the clock is seen to advance in one run
MaxTicks == 2
MaxPage == 2
MaxImages == 3
MaxDeletes == 1
\* largest number of modals opened in one run
MaxModals == 3
\* largest number of close timers pending at one moment
MaxCloseTimers == 2

\* ===== API_CONFIG (api.js:2-15) =====
API_CONFIG_retryAttempts == 3
API_CONFIG_retryDelay == 1000

\* ===== headers =====
\* A JavaScript headers object: a function from its own keys to values.
EmptyObj == [k \in {} |-> ""]

JSON_TYPE == "application/json"

\* the transport (fetch's Headers) treats names case-insensitively
Lower(n) == IF n = "Content-Type" THEN "content-type"
            ELSE IF n = "X-Custom" THEN "x-custom"
            ELSE IF n = "Authorization" THEN "authorization"
            ELSE n

\* { ...a, ...b }: the keys of b replace those of a
Spread(a, b) == [k \in (DOMAIN a) \cup (DOMAIN b) |->
                    IF k \in DOMAIN b THEN b[k] ELSE a[k]]

\* delete obj[key]
DeleteKey(obj, key) == [k \in (DOMAIN obj) \ {key} |-> obj[k]]

\* obj[key] = value
SetKey(obj, key, value) == [k \in (DOMAIN obj) \cup {key} |->
                               IF k = key THEN value ELSE obj[k]]

\* HttpClient.constructor, `config.x || API_CONFIG.x`: a falsy value (0 or
\* undefined, both written 0 here) selects the default
OrDefault(v, d) == IF v = 0 THEN d ELSE v

\* HttpClient.constructor: { 'Content-Type': 'application/json', ...config.headers }
MakeDefaultHeaders(cfgHeaders) == Spread(("Content-Type" :> JSON_TYPE), cfgHeaders)

\* headers objects handed to the constructor
CtorHeaderChoices == { EmptyObj, ("X-Custom" :> "client") }

\* retryDelay values handed to the constructor (0: not given)
RetryDelayCfg == {0, 250}

\* headers objects a caller passes in options.headers
HeaderChoices == { EmptyObj,
                   ("X-Custom" :> "1"),
                   ("Content-Type" :> "text/plain"),
                   ("Content-Type" :> JSON_TYPE),
                   ("content-type" :> "text/plain") }

\* an optional headers property: absent, or a headers object
Absent == [defined |-> FALSE, h |-> EmptyObj]
Given(h) == [defined |-> TRUE, h |-> h]

\* what the transport puts on the wire for a headers object and a body:
\* names are lower-cased (values of keys that differ only in case are
\* combined); without a content-type the transport derives one from the body
WireHeaders(h, body) ==
    LET names == { Lower(k) : k \in DOMAIN h }
        own == [n \in names |-> { h[k] : k \in { x \in DOMAIN h : Lower(x) = n } }]
    IN  IF "content-type" \in names \/ body = "none" THEN own
        ELSE IF body = "formdata"
             THEN [n \in names \cup {"content-type"} |->
                     IF n = "content-type" THEN {"multipart/form-data; boundary"} ELSE own[n]]
             ELSE [n \in names \cup {"content-type"} |->
                     IF n = "content-type" THEN {"text/plain;charset=UTF-8"} ELSE own[n]]

\* ===== responses and errors =====
\* Response.ok
Ok(status) == status >= 200 /\ status < 300

NoError == [name |-> "none", status |-> 0]
\* new HttpError(status, ...) (api.js:171-178)
HttpError(status) == [name |-> "HttpError", status |-> status]
\* fetch rejects with a TypeError on a network failure
NetworkError == [name |-> "TypeError", status |-> 0]
\* fetch rejects with an AbortError once controller.abort() ran
AbortError == [name |-> "AbortError", status |-> 0]

\* (variant: client errors are retried like any other failure)
NoRetry_OnlyAbort(error) == error.name = "AbortError"

\* the condition of api.js:86
NoRetry(error) == error.name = "AbortError" \/ (error.status >= 400 /\ error.status < 500)

\* Math.pow(2, n)
RECURSIVE Pow2(_)
Pow2(n) == IF n = 0 THEN 1 ELSE 2 * Pow2(n - 1)

\* (variant: the delay grows linearly)
BackoffDelay_Linear(base, k) == base * (k + 1)

\* the argument of this.delay at api.js:92
BackoffDelay(base, k) == base * Pow2(k)

\* (variant: the loop stops one attempt early)
MayAttempt_Strict(a, limit) == a < limit

\* the loop condition of api.js:66
MayAttempt(a, limit) == a <= limit

\* the condition of api.js:91
WaitsBeforeRetry(a, limit) == a < limit

\* `for (const interceptor of list)` after i iterations: is there a next
\* element (the array iterator looks at the array's current length), and
\* which one (HasNext, NextOf)
\* (variant: the last element is left out)
HasNext_SkipLast(list, i) == i + 1 < Len(list)

HasNext(list, i) == i < Len(list)

\* (variant: the list is walked from its end)
NextOf_Reversed(list, i) == list[Len(list) - i]

NextOf(list, i) == list[i + 1]

\* interceptors of this repository (ApiService.setupInterceptors) and two
\* interceptors without further effect
RequestInterceptorIds == {"auth", "reqA"}
ResponseInterceptorIds == {"on401", "respA"}

\* the request interceptor of api.js:189-194 applied to the headers object
ApplyRequestInterceptor(id, headers, token) ==
    IF id = "auth" /\ token # "none"
    THEN SetKey(headers, "Authorization", token)
    ELSE headers

\* (variant: the interceptor reacts to 403)
ApplyResponseInterceptor_OnForbidden(id, status, token) ==
    IF id = "on401" /\ status = 403 THEN "none" ELSE token

\* the response interceptor of api.js:197-202 (handleUnauthorized removes the token)
ApplyResponseInterceptor(id, status, token) ==
    IF id = "on401" /\ status = 401 THEN "none" ELSE token

VARIABLES
    \* --- HttpClient fields ---
    retryAttempts, retryDelay, defaultHeaders, interceptors,
    \* localStorage['carousel-auth-token'] ("none": no token)
    authToken,
    \* --- the running HttpClient.request call ---
    pc,          \* "idle", "reqInt", "fetch", "respInt", "delay", "done"
    call,        \* how the caller entered: verb, data, options.headers
    config,      \* the config object of api.js:44
    idx,         \* number of interceptors of the current loop invoked so far
    timer,       \* timeoutId: "unset", "armed", "fired", "cleared"
    aborted,     \* controller.signal.aborted
    attempt,     \* loop variable of api.js:66
    lastError,
    response,    \* status of the response being handled (0: none)
    result,      \* what the caller gets: [kind, status, error]
    \* --- observation of the running call ---
    outcomes,    \* per fetch call: the error it ended in (NoError with status: a response)
    delays,      \* the backoff delays waited, in order
    reqLog,      \* request interceptors invoked, in order
    respLog,     \* response interceptors invoked on the current response, in order
    sent,        \* per fetch call: what went on the wire
    regAtCall,   \* interceptors.request when request was called
    regAtRecv,   \* interceptors.response when the last response arrived
    \* --- UploadManager fields ---
    uploadQueue, \* this.uploadQueue: the ids of the items of the current array
    isUploading,
    \* --- the upload items ever created, by id (a removed item lives on
    \* while the running batch still holds it) ---
    items,
    \* --- the running queueFiles call ---
    pendingFiles, \* the files not pushed yet; a preview of the first is being made
    \* --- the running startUpload call ---
    upc,         \* "idle", "fetch", "json", "sim"
    loopArr,     \* the array the loop of upload.js:348 walks
    loopSame,    \* this.uploadQueue is still that array
    loopIdx,     \* position of the item being uploaded
    simI,        \* loop variable i of upload.js:421
    purgeTimers, \* pending timers of upload.js:371
    \* --- observation ---
    batches,     \* number of startUpload calls that started a batch
    events,      \* per item: number of 'imageUploaded' events dispatched
    batchLog,    \* the running batch: how each uploadFile call settled, in order
    toastErrors, \* the lines of the last 'Some files were rejected' toast
    \* --- CacheManager (api.js:499-553)
    cache,       \* this.cache: the entries of the Map, in its iteration order
    now,         \* Date.now()
    ticks,       \* number of times the clock advanced
    ret,         \* the last call of a CacheManager method and what it returned
    \* --- the running ApiService method (api.js:181-372)
    apiPc,       \* "idle", "request", "parse", "done"
    apiCall,     \* the name of the method
    apiResult,   \* what its caller gets: [kind, mock, error]
    loginPc,     \* "idle"; "login" or "logout": the post of that method is in flight
    \* --- GalleryManager fields (gallery.js:3-13); a list holds the ids of
    \* its image records
    images, filteredImages, currentPage, isLoading, sortBy, sortOrder,
    \* --- the running calls of the GalleryManager
    loads,       \* the loadImages calls waiting for fetch or response.json()
    deletes,     \* the image of each deleteImage call waiting for fetch
    \* --- observation
    toast,       \* the last message shown ("": none)
    gret,        \* the last call or completion of the GalleryManager
    \* --- ModalManager (api.js:747-853); a modal is the number of the create
    \* call that made its overlay
    activeModal,  \* this.activeModal (0: null)
    attached,     \* the overlays that are children of document.body
    shown,        \* the overlays with the class 'active'
    closeTimers,  \* pending timers of api.js:845
    showTimers,   \* pending timers of api.js:830
    bodyOverflow, \* document.body.style.overflow
    \* --- observation
    modals,       \* number of overlays created
    mret          \* the last call of open or close: [op, id, replaced]

httpVars == << retryAttempts, retryDelay, defaultHeaders, interceptors, authToken,
               pc, call, config, idx, timer, aborted, attempt, lastError, response,
               result, outcomes, delays, reqLog, respLog, sent, regAtCall, regAtRecv >>

uploadVars == << uploadQueue, isUploading, items, pendingFiles, upc, loopArr, loopSame,
                 loopIdx, simI, purgeTimers, batches, events, batchLog, toastErrors >>

cacheVars == << cache, now, ticks, ret >>

apiVars == << apiPc, apiCall, apiResult, loginPc >>

galleryVars == << images, filteredImages, currentPage, isLoading, sortBy, sortOrder,
                 loads, deletes, toast, gret >>

modalVars == << activeModal, attached, shown, closeTimers, showTimers, bodyOverflow,
               modals, mret >>

vars == << httpVars, uploadVars, cacheVars, apiVars, galleryVars, modalVars >>

NoResult == [kind |-> "none", status |-> 0, error |-> NoError]
Resolved(status) == [kind |-> "resolved", status |-> status, error |-> NoError]
Rejected(error) == [kind |-> "rejected", status |-> 0, error |-> error]

NoConfig == [method |-> "", headers |-> EmptyObj, body |-> "none"]

\* new HttpClient(config) (api.js:19-33) for config.retryAttempts in ras,
\* config.retryDelay in rds and config.headers in hs, with the persisted
\* token in tokens
HttpInit(ras, rds, hs, tokens) ==
    /\ \E ra \in ras : retryAttempts = OrDefault(ra, API_CONFIG_retryAttempts)
    /\ \E rd \in rds : retryDelay = OrDefault(rd, API_CONFIG_retryDelay)
    /\ \E h \in hs : defaultHeaders = MakeDefaultHeaders(h)
    /\ interceptors = [request |-> << >>, response |-> << >>]
    /\ authToken \in tokens
    /\ pc = "idle"
    /\ call = [verb |-> "", data |-> "none", headers |-> Absent]
    /\ config = NoConfig
    /\ idx = 0
    /\ timer = "unset"
    /\ aborted = FALSE
    /\ attempt = 0
    /\ lastError = NoError
    /\ response = 0
    /\ result = NoResult
    /\ outcomes = << >>
    /\ delays = << >>
    /\ reqLog = << >>
    /\ respLog = << >>
    /\ sent = << >>
    /\ regAtCall = << >>
    /\ regAtRecv = << >>

Range(q) == { q[i] : i \in 1..Len(q) }

\* HttpClient.addRequestInterceptor
addRequestInterceptor(id) ==
    /\ id \notin Range(interceptors.request)
    /\ interceptors' = [interceptors EXCEPT !.request = Append(@, id)]
    /\ UNCHANGED << retryAttempts, retryDelay, defaultHeaders, authToken,
                    pc, call, config, idx, timer, aborted, attempt, lastError, response,
                    result, outcomes, delays, reqLog, respLog, sent, regAtCall, regAtRecv >>
    /\ UNCHANGED << uploadVars, cacheVars, apiVars, galleryVars, modalVars >>

\* HttpClient.addResponseInterceptor
addResponseInterceptor(id) ==
    /\ id \notin Range(interceptors.response)
    /\ interceptors' = [interceptors EXCEPT !.response = Append(@, id)]
    /\ UNCHANGED << retryAttempts, retryDelay, defaultHeaders, authToken,
                    pc, call, config, idx, timer, aborted, attempt, lastError, response,
                    result, outcomes, delays, reqLog, respLog, sent, regAtCall, regAtRecv >>
    /\ UNCHANGED << uploadVars, cacheVars, apiVars, galleryVars, modalVars >>

\* the options object HttpClient.post hands to request (api.js:108-121)
PostConfig(data, optHeaders) ==
    [method  |-> "POST",
     headers |-> IF data = "formdata" /\ optHeaders.defined
                 THEN Given(DeleteKey(optHeaders.h, "Content-Type"))
                 ELSE optHeaders,
     body    |-> data]

\* the config object of api.js:44-48 built from the options
RequestConfig(defaults, options) ==
    [method  |-> options.method,
     headers |-> IF options.headers.defined THEN options.headers.h ELSE Spread(EmptyObj, defaults),
     body    |-> options.body]

\* the options each entry point hands to request
OptionsOf(verb, data, optHeaders) ==
    IF verb = "post" THEN PostConfig(data, optHeaders)
    ELSE IF verb = "put" THEN [method |-> "PUT", headers |-> Absent, body |-> data]
    ELSE IF verb = "delete" THEN [method |-> "DELETE", headers |-> Absent, body |-> "none"]
    ELSE IF verb = "get" THEN [method |-> "GET", headers |-> Absent, body |-> "none"]
    ELSE [method |-> "GET", headers |-> optHeaders, body |-> data]

\* clearTimeout(timeoutId) applied to the timer state t
ClearTimeout(t) == IF t = "armed" THEN "cleared" ELSE t

\* the fetch call of api.js:68 as seen on the wire
Wire(c) == [headers |-> WireHeaders(c.headers, c.body), body |-> c.body]

\* api.js:59-68: arm the timeout and call fetch for attempt 0
\* (c: the config after the interceptors)
StartFetch(c) ==
    /\ timer' = "armed"
    /\ aborted' = FALSE
    /\ attempt' = 0
    /\ lastError' = NoError
    /\ sent' = << Wire(c) >>
    /\ pc' = "fetch"

\* HttpClient.request / get / post / put / delete up to the first await,
\* as far as the client and the call are concerned
RequestCall(verb, data, optHeaders) ==
    /\ pc \in {"idle", "done"}
    /\ verb \in {"get", "delete"} => data = "none" /\ ~optHeaders.defined
    /\ verb = "put" => data \in {"none", "json"} /\ ~optHeaders.defined
    /\ verb = "request" => data \in {"none", "json"}
    /\ call' = [verb |-> verb, data |-> data, headers |-> optHeaders]
    /\ regAtCall' = interceptors.request
    /\ result' = NoResult
    /\ outcomes' = << >>
    /\ delays' = << >>
    /\ respLog' = << >>
    /\ regAtRecv' = << >>
    /\ response' = 0
    /\ LET c0 == RequestConfig(defaultHeaders, OptionsOf(verb, data, optHeaders))
       IN IF ~HasNext(interceptors.request, 0)
          THEN /\ config' = c0
               /\ reqLog' = << >>
               /\ idx' = 0
               /\ StartFetch(c0)
          ELSE /\ config' = [c0 EXCEPT !.headers =
                                ApplyRequestInterceptor(NextOf(interceptors.request, 0), @, authToken)]
               /\ reqLog' = << NextOf(interceptors.request, 0) >>
               /\ idx' = 1
               /\ pc' = "reqInt"
               /\ timer' = "unset"
               /\ aborted' = FALSE
               /\ attempt' = 0
               /\ lastError' = NoError
               /\ sent' = << >>
    /\ UNCHANGED << retryAttempts, retryDelay, defaultHeaders, interceptors, authToken >>

\* HttpClient.request / get / post / put / delete called by the page
Request(verb, data, optHeaders) ==
    /\ RequestCall(verb, data, optHeaders)
    /\ UNCHANGED << uploadVars, cacheVars, apiVars, galleryVars, modalVars >>

\* api.js:51-53: the awaited interceptor returned; invoke the next one, or
\* leave the loop and dispatch
RequestInterceptorStep ==
    /\ pc = "reqInt"
    /\ IF HasNext(interceptors.request, idx)
       THEN /\ config' = [config EXCEPT !.headers =
                             ApplyRequestInterceptor(NextOf(interceptors.request, idx), @, authToken)]
            /\ reqLog' = Append(reqLog, NextOf(interceptors.request, idx))
            /\ idx' = idx + 1
            /\ UNCHANGED << pc, timer, aborted, attempt, lastError, sent >>
       ELSE /\ config' = config
            /\ StartFetch(config)
            /\ UNCHANGED << reqLog, idx >>
    /\ UNCHANGED << retryAttempts, retryDelay, defaultHeaders, interceptors, authToken,
                    call, response, result, outcomes, delays, respLog, regAtCall, regAtRecv >>
    /\ UNCHANGED << uploadVars, cacheVars, apiVars, galleryVars, modalVars >>

\* the callback of setTimeout at api.js:60
TimeoutFires ==
    /\ timer = "armed"
    /\ timer' = "fired"
    /\ aborted' = TRUE
    /\ UNCHANGED << retryAttempts, retryDelay, defaultHeaders, interceptors, authToken,
                    pc, call, config, idx, attempt, lastError, response,
                    result, outcomes, delays, reqLog, respLog, sent, regAtCall, regAtRecv >>
    /\ UNCHANGED << uploadVars, cacheVars, apiVars, galleryVars, modalVars >>

\* api.js:82-98: the catch block for `error` thrown in attempt `attempt`,
\* followed by the loop header (the next fetch call) or the code after the
\* loop; t is the timer state when the error is caught
Catch(error, t) ==
    /\ lastError' = error
    /\ IF NoRetry(error)
       THEN \* break; clearTimeout; throw lastError
            /\ pc' = "done"
            /\ result' = Rejected(error)
            /\ timer' = ClearTimeout(t)
            /\ UNCHANGED << attempt, sent >>
       ELSE IF WaitsBeforeRetry(attempt, retryAttempts)
            THEN /\ pc' = "delay"
                 /\ timer' = t
                 /\ UNCHANGED << result, attempt, sent >>
            ELSE IF MayAttempt(attempt + 1, retryAttempts)
                 THEN \* no wait, next iteration
                      /\ attempt' = attempt + 1
                      /\ sent' = Append(sent, Wire(config))
                      /\ pc' = "fetch"
                      /\ timer' = t
                      /\ UNCHANGED << result >>
                 ELSE /\ pc' = "done"
                      /\ result' = Rejected(error)
                      /\ timer' = ClearTimeout(t)
                      /\ UNCHANGED << attempt, sent >>

\* api.js:76-80 once the response interceptors are through
AfterInterceptors(status, t) ==
    IF Ok(status)
    THEN /\ pc' = "done"
         /\ result' = Resolved(status)
         /\ timer' = t
         /\ UNCHANGED << lastError, attempt, sent >>
    ELSE Catch(HttpError(status), t)

\* fetch resolves with a response (api.js:68-73): clearTimeout, then the
\* first response interceptor, or api.js:76 when none is registered
FetchResponds(status) ==
    /\ pc = "fetch"
    /\ ~aborted
    /\ response' = status
    /\ outcomes' = Append(outcomes, [name |-> "response", status |-> status])
    /\ regAtRecv' = interceptors.response
    /\ IF ~HasNext(interceptors.response, 0)
       THEN /\ AfterInterceptors(status, ClearTimeout(timer))
            /\ respLog' = << >>
            /\ UNCHANGED << idx, authToken >>
       ELSE /\ timer' = ClearTimeout(timer)
            /\ authToken' = ApplyResponseInterceptor(NextOf(interceptors.response, 0),
                                                     status, authToken)
            /\ respLog' = << NextOf(interceptors.response, 0) >>
            /\ idx' = 1
            /\ pc' = "respInt"
            /\ UNCHANGED << result, lastError, attempt, sent >>
    /\ UNCHANGED << retryAttempts, retryDelay, defaultHeaders, interceptors,
                    call, config, aborted, delays, reqLog, regAtCall >>
    /\ UNCHANGED << uploadVars, cacheVars, apiVars, galleryVars, modalVars >>

\* api.js:72-80: the awaited response interceptor returned; invoke the next
\* one, or leave the loop and look at response.ok
ResponseInterceptorStep ==
    /\ pc = "respInt"
    /\ IF HasNext(interceptors.response, idx)
       THEN /\ authToken' = ApplyResponseInterceptor(NextOf(interceptors.response, idx),
                                                     response, authToken)
            /\ respLog' = Append(respLog, NextOf(interceptors.response, idx))
            /\ idx' = idx + 1
            /\ UNCHANGED << pc, result, timer, lastError, attempt, sent >>
       ELSE /\ AfterInterceptors(response, timer)
            /\ UNCHANGED << idx, respLog, authToken >>
    /\ UNCHANGED << retryAttempts, retryDelay, defaultHeaders, interceptors,
                    call, config, aborted, response, outcomes, delays, reqLog,
                    regAtCall, regAtRecv >>
    /\ UNCHANGED << uploadVars, cacheVars, apiVars, galleryVars, modalVars >>

\* fetch rejects with a TypeError: the network call itself failed
FetchFails ==
    /\ pc = "fetch"
    /\ ~aborted
    /\ outcomes' = Append(outcomes, NetworkError)
    /\ Catch(NetworkError, timer)
    /\ UNCHANGED << retryAttempts, retryDelay, defaultHeaders, interceptors, authToken,
                    call, config, idx, aborted, response, delays, reqLog, respLog,
                    regAtCall, regAtRecv >>
    /\ UNCHANGED << uploadVars, cacheVars, apiVars, galleryVars, modalVars >>

\* fetch rejects with an AbortError: the signal is aborted (while the call
\* is in flight, or already when fetch is called)
FetchAborts ==
    /\ pc = "fetch"
    /\ aborted
    /\ outcomes' = Append(outcomes, AbortError)
    /\ Catch(AbortError, timer)
    /\ UNCHANGED << retryAttempts, retryDelay, defaultHeaders, interceptors, authToken,
                    call, config, idx, aborted, response, delays, reqLog, respLog,
                    regAtCall, regAtRecv >>
    /\ UNCHANGED << uploadVars, cacheVars, apiVars, galleryVars, modalVars >>

\* api.js:92 and 165-167: the backoff timer ran out; next iteration of the
\* loop of api.js:66
DelayElapsed ==
    /\ pc = "delay"
    /\ delays' = Append(delays, BackoffDelay(retryDelay, attempt))
    /\ IF MayAttempt(attempt + 1, retryAttempts)
       THEN /\ attempt' = attempt + 1
            /\ sent' = Append(sent, Wire(config))
            /\ pc' = "fetch"
            /\ UNCHANGED << result, timer >>
       ELSE /\ pc' = "done"
            /\ result' = Rejected(lastError)
            /\ timer' = ClearTimeout(timer)
            /\ UNCHANGED << attempt, sent >>
    /\ UNCHANGED << retryAttempts, retryDelay, defaultHeaders, interceptors, authToken,
                    call, config, idx, aborted, lastError, response, outcomes,
                    reqLog, respLog, regAtCall, regAtRecv >>
    /\ UNCHANGED << uploadVars, cacheVars, apiVars, galleryVars, modalVars >>

\* new GalleryManager() (gallery.js:3-21): init() has called loadImages
GalleryInit ==
    /\ images = << >>
    /\ filteredImages = << >>
    /\ currentPage = 1
    /\ isLoading = TRUE
    /\ sortBy = "date"
    /\ sortOrder = "desc"
    /\ loads = << [stage |-> "fetch", page |-> 1] >>
    /\ deletes = << >>
    /\ toast = ""
    /\ gret = [op |-> "new", id |-> 0]

\* ===== ModalManager (api.js:747-853) =====
\* new ModalManager() (api.js:748-751)
ModalInit ==
    /\ activeModal = 0
    /\ attached = {}
    /\ shown = {}
    /\ closeTimers = 0
    /\ showTimers = 0
    /\ bodyOverflow = ""
    /\ modals = 0
    /\ mret = [op |-> "new", id |-> 0, replaced |-> 0]

\* what a call of close() leaves (api.js:840-852): the classes of the
\* overlays and the number of pending close timers
Closing(active, sh, timers) ==
    IF active = 0
    THEN [shown |-> sh, closeTimers |-> timers]
    ELSE [shown |-> sh \ {active}, closeTimers |-> timers + 1]

\* ModalManager.open (api.js:821-838)
open ==
    /\ modals < MaxModals
    /\ activeModal # 0 => closeTimers < MaxCloseTimers
    /\ shown' = Closing(activeModal, shown, closeTimers).shown
    /\ closeTimers' = Closing(activeModal, shown, closeTimers).closeTimers
    /\ modals' = modals + 1
    /\ activeModal' = modals + 1
    /\ attached' = attached \cup {modals + 1}
    /\ showTimers' = showTimers + 1
    /\ bodyOverflow' = "hidden"
    /\ mret' = [op |-> "open", id |-> modals + 1, replaced |-> activeModal]
    /\ UNCHANGED << httpVars, uploadVars, cacheVars, apiVars, galleryVars >>

\* ModalManager.close (api.js:840-852), called by the close button, by a
\* click on an overlay or by the Escape key
close ==
    /\ activeModal # 0 => closeTimers < MaxCloseTimers
    /\ shown' = Closing(activeModal, shown, closeTimers).shown
    /\ closeTimers' = Closing(activeModal, shown, closeTimers).closeTimers
    /\ mret' = [op |-> "close", id |-> activeModal, replaced |-> 0]
    /\ UNCHANGED << activeModal, attached, showTimers, bodyOverflow, modals >>
    /\ UNCHANGED << httpVars, uploadVars, cacheVars, apiVars, galleryVars >>

\* the callback of the timer of api.js:830-832; with this.activeModal null
\* it throws a TypeError
ShowTimerFires ==
    /\ showTimers > 0
    /\ showTimers' = showTimers - 1
    /\ shown' = IF activeModal # 0 THEN shown \cup {activeModal} ELSE shown
    /\ UNCHANGED << activeModal, attached, closeTimers, bodyOverflow, modals, mret >>
    /\ UNCHANGED << httpVars, uploadVars, cacheVars, apiVars, galleryVars >>

\* the callback of the timer of api.js:845-851
CloseTimerFires ==
    /\ closeTimers > 0
    /\ closeTimers' = closeTimers - 1
    /\ attached' = IF activeModal # 0 /\ activeModal \in attached
                   THEN attached \ {activeModal} ELSE attached
    /\ activeModal' = 0
    /\ bodyOverflow' = ""
    /\ UNCHANGED << shown, showTimers, modals, mret >>
    /\ UNCHANGED << httpVars, uploadVars, cacheVars, apiVars, galleryVars >>

\* ===== ApiService (api.js:181-497) =====
\* the methods that fall back to mock data (api.js:224-243, 314-336)
ReadEndpoints == {"getImages", "searchImages", "getUserProfile"}

\* mock: the value is what getMockImageData, getMockSearchResults or
\* getMockUserProfile returns (api.js:383-496), not a parsed response body
NoApiResult == [kind |-> "none", mock |-> FALSE, error |-> NoError]

\* (variant: only getImages falls back)
Swallows_ImagesOnly(method) == method = "getImages"

\* the catch block of method returns mock data instead of rethrowing
Swallows(method) == method \in ReadEndpoints

\* the catch block of an ApiService method (api.js:236-242, 299-302,
\* 321-325, 332-335)
Caught(error) ==
    /\ apiPc' = "done"
    /\ apiResult' = IF Swallows(apiCall)
                    THEN [kind |-> "resolved", mock |-> TRUE, error |-> NoError]
                    ELSE [kind |-> "rejected", mock |-> FALSE, error |-> error]

\* no ApiService constructed yet; the HttpClient is the one of HttpInit
ApiInit ==
    /\ apiPc = "new"
    /\ apiCall = ""
    /\ apiResult = NoApiResult
    /\ loginPc = "idle"

\* the rest of new ApiService() after new HttpClient() (api.js:184-203)
setupInterceptors ==
    /\ apiPc = "new"
    /\ pc = "idle"
    /\ apiPc' = "idle"
    /\ interceptors' = [request  |-> Append(interceptors.request, "auth"),
                        response |-> Append(interceptors.response, "on401")]
    /\ UNCHANGED << retryAttempts, retryDelay, defaultHeaders, authToken,
                    pc, call, config, idx, timer, aborted, attempt, lastError, response,
                    result, outcomes, delays, reqLog, respLog, sent, regAtCall, regAtRecv >>
    /\ UNCHANGED << apiCall, apiResult, loginPc >>
    /\ UNCHANGED << uploadVars, cacheVars, galleryVars, modalVars >>

\* getImages(params), searchImages(query), getUserProfile(), deleteImage(id)
\* up to the first await of HttpClient.request
ApiCall(method) ==
    /\ apiPc \in {"idle", "done"}
    /\ RequestCall(IF method = "deleteImage" THEN "delete" ELSE "get", "none", Absent)
    /\ apiPc' = "request"
    /\ apiCall' = method
    /\ apiResult' = NoApiResult
    /\ UNCHANGED loginPc
    /\ UNCHANGED << uploadVars, cacheVars, galleryVars, modalVars >>

\* `await this.request(...)` of api.js:102-103 and 135-138 settled: on to
\* parseResponse, or into the catch block of the method
RequestSettled ==
    /\ apiPc = "request"
    /\ pc = "done"
    /\ IF result.kind = "resolved"
       THEN /\ apiPc' = "parse"
            /\ UNCHANGED apiResult
       ELSE Caught(result.error)
    /\ UNCHANGED << apiCall, loginPc >>
    /\ UNCHANGED << httpVars, uploadVars, cacheVars, galleryVars, modalVars >>

\* parseResponse (api.js:155-163): response.json() or response.text()
\* settled; response.json() rejects with a SyntaxError
ParseSettles(ok) ==
    /\ apiPc = "parse"
    /\ IF ok
       THEN /\ apiPc' = "done"
            /\ apiResult' = [kind |-> "resolved", mock |-> FALSE, error |-> NoError]
       ELSE Caught([name |-> "SyntaxError", status |-> 0])
    /\ UNCHANGED << apiCall, loginPc >>
    /\ UNCHANGED << httpVars, uploadVars, cacheVars, galleryVars, modalVars >>

\* the Authorization value for the token a successful login returns
LoginToken == "Bearer t2"

\* login(credentials) and logout() up to `await this.client.post(...)`
\* (api.js:350, 365); the post is a request of its own next to the one of
\* ApiCall and carries the token stored at this moment
AuthCall(method) ==
    /\ apiPc # "new"
    /\ loginPc = "idle"
    /\ loginPc' = method
    /\ UNCHANGED << apiPc, apiCall, apiResult >>
    /\ UNCHANGED << httpVars, uploadVars, cacheVars, galleryVars, modalVars >>

\* the post of login settled (api.js:350-358): with a body that has a token
\* (setAuthToken), with a body without one, or rejected after a failure on the
\* network or a 5xx status
LoginSettles(outcome) ==
    /\ loginPc = "login"
    /\ loginPc' = "idle"
    /\ authToken' = IF outcome = "token" THEN LoginToken ELSE authToken
    /\ UNCHANGED << retryAttempts, retryDelay, defaultHeaders, interceptors,
                    pc, call, config, idx, timer, aborted, attempt, lastError, response,
                    result, outcomes, delays, reqLog, respLog, sent, regAtCall, regAtRecv >>
    /\ UNCHANGED << apiPc, apiCall, apiResult >>
    /\ UNCHANGED << uploadVars, cacheVars, galleryVars, modalVars >>

\* the post of logout settled either way (api.js:364-370): removeAuthToken
LogoutSettles ==
    /\ loginPc = "logout"
    /\ loginPc' = "idle"
    /\ authToken' = "none"
    /\ UNCHANGED << retryAttempts, retryDelay, defaultHeaders, interceptors,
                    pc, call, config, idx, timer, aborted, attempt, lastError, response,
                    result, outcomes, delays, reqLog, respLog, sent, regAtCall, regAtRecv >>
    /\ UNCHANGED << apiPc, apiCall, apiResult >>
    /\ UNCHANGED << uploadVars, cacheVars, galleryVars, modalVars >>

\* ===== UploadManager (upload.js) =====
\* upload.js:7
maxFileSize == 10 * 1024 * 1024
\* upload.js:8
allowedTypes == {"image/jpeg", "image/jpg", "image/png", "image/gif", "image/webp"}

TYPE_ERROR == "File type not supported. Please use JPEG, PNG, GIF, or WebP."
SIZE_ERROR == "File too large. Maximum size is 10 MB."

validateFile_SizeInclusive(file) ==
    IF file.type \notin allowedTypes THEN TYPE_ERROR
    ELSE IF file.size >= maxFileSize THEN SIZE_ERROR
    ELSE ""

\* UploadManager.validateFile (upload.js:128-144): "" for a valid file
validateFile(file) ==
    IF file.type \notin allowedTypes THEN TYPE_ERROR
    ELSE IF file.size > maxFileSize THEN SIZE_ERROR
    ELSE ""

\* the files a user drops: a 2 MB PNG, a GIF of exactly the ceiling, a 12 MB
\* JPEG, a text file and a 12 MB video
FileChoices == { [name |-> "photo.png", type |-> "image/png", size |-> 2097152],
                 [name |-> "anim.gif", type |-> "image/gif", size |-> 10485760],
                 [name |-> "big.jpg", type |-> "image/jpeg", size |-> 12582912],
                 [name |-> "notes.txt", type |-> "text/plain", size |-> 2097152],
                 [name |-> "clip.mp4", type |-> "video/mp4", size |-> 12582912] }

\* the file lists of one drop with files of the set fs
FileLists(fs) == { << f >> : f \in fs } \cup { << f, g >> : f \in fs, g \in fs }

\* Array.prototype.filter on a list of item ids
RECURSIVE FilterIds(_, _)
FilterIds(q, keep) ==
    IF q = << >> THEN << >>
    ELSE IF Head(q) \in keep THEN << Head(q) >> \o FilterIds(Tail(q), keep)
    ELSE FilterIds(Tail(q), keep)

\* the valid files of a drop, in order (upload.js:110-117)
RECURSIVE ValidFiles(_)
ValidFiles(files) ==
    IF files = << >> THEN << >>
    ELSE IF validateFile(Head(files)) = "" THEN << Head(files) >> \o ValidFiles(Tail(files))
    ELSE ValidFiles(Tail(files))

\* the lines of the rejection toast of a drop, in order (upload.js:110-121)
RECURSIVE Errors(_)
Errors(files) ==
    IF files = << >> THEN << >>
    ELSE IF validateFile(Head(files)) = "" THEN Errors(Tail(files))
    ELSE << [name |-> Head(files).name, error |-> validateFile(Head(files))] >>
         \o Errors(Tail(files))

\* the upload item of upload.js:148-160, with its preview
NewItem(file, hasPreview) ==
    [file |-> file, preview |-> hasPreview, status |-> "pending", progress |-> 0, error |-> ""]

\* new UploadManager() (upload.js:3-13)
UploadInit ==
    /\ uploadQueue = << >>
    /\ isUploading = FALSE
    /\ items = << >>
    /\ pendingFiles = << >>
    /\ upc = "idle"
    /\ loopArr = << >>
    /\ loopSame = FALSE
    /\ loopIdx = 0
    /\ simI = 0
    /\ purgeTimers = 0
    /\ batches = 0
    /\ events = << >>
    /\ batchLog = << >>
    /\ toastErrors = << >>

\* UploadManager.handleFiles (upload.js:105-126) and queueFiles up to its
\* first await (the preview of the first valid file)
handleFiles(files) ==
    /\ pendingFiles = << >>
    /\ Len(items) + Len(ValidFiles(files)) <= MaxFiles
    /\ toastErrors' = IF Len(Errors(files)) > 0 THEN Errors(files) ELSE toastErrors
    /\ pendingFiles' = ValidFiles(files)
    /\ UNCHANGED << uploadQueue, isUploading, items, upc, loopArr, loopSame, loopIdx, simI,
                    purgeTimers, batches, events, batchLog >>
    /\ UNCHANGED << httpVars, cacheVars, apiVars, galleryVars, modalVars >>

\* queueFiles after createImagePreview settled (upload.js:163-171): the item
\* is pushed onto the current array; the preview of the next file starts
PreviewSettles(ok) ==
    /\ pendingFiles # << >>
    /\ items' = Append(items, NewItem(Head(pendingFiles), ok))
    /\ events' = Append(events, 0)
    /\ uploadQueue' = Append(uploadQueue, Len(items) + 1)
    /\ loopArr' = IF loopSame THEN Append(loopArr, Len(items) + 1) ELSE loopArr
    /\ pendingFiles' = Tail(pendingFiles)
    /\ UNCHANGED << isUploading, upc, loopSame, loopIdx, simI, purgeTimers, batches,
                    batchLog, toastErrors >>
    /\ UNCHANGED << httpVars, cacheVars, apiVars, galleryVars, modalVars >>

\* UploadManager.removeUploadItem (upload.js:313-322)
removeUploadItem(uploadId) ==
    /\ uploadId \in Range(uploadQueue)
    /\ uploadQueue' = FilterIds(uploadQueue, Range(uploadQueue) \ {uploadId})
    /\ loopSame' = FALSE
    /\ UNCHANGED << isUploading, items, pendingFiles, upc, loopArr, loopIdx, simI,
                    purgeTimers, batches, events, batchLog, toastErrors >>
    /\ UNCHANGED << httpVars, cacheVars, apiVars, galleryVars, modalVars >>

Purged_DropsFailed(queue, its) ==
    FilterIds(queue, { id \in Range(queue) : its[id].status \in {"pending", "uploading"} })

\* the queue without its completed items (upload.js:487)
Purged(queue, its) ==
    FilterIds(queue, { id \in Range(queue) : its[id].status # "completed" })

\* UploadManager.clearCompletedUploads (upload.js:486-498), run by the timer
\* of upload.js:371
clearCompletedUploads ==
    /\ purgeTimers > 0
    /\ purgeTimers' = purgeTimers - 1
    /\ uploadQueue' = Purged(uploadQueue, items)
    /\ loopSame' = FALSE
    /\ UNCHANGED << isUploading, items, pendingFiles, upc, loopArr, loopIdx, simI,
                    batches, events, batchLog, toastErrors >>
    /\ UNCHANGED << httpVars, cacheVars, apiVars, galleryVars, modalVars >>

\* UploadManager.clearAllUploads (upload.js:500-515); while a batch runs it
\* returns at once
clearAllUploads ==
    /\ ~isUploading
    /\ uploadQueue # << >>
    /\ uploadQueue' = << >>
    /\ loopSame' = FALSE
    /\ UNCHANGED << isUploading, items, pendingFiles, upc, loopArr, loopIdx, simI,
                    purgeTimers, batches, events, batchLog, toastErrors >>
    /\ UNCHANGED << httpVars, cacheVars, apiVars, galleryVars, modalVars >>

\* uploadFile up to its first await (upload.js:377-387) for item id of the item table its
Uploading(its, id) == [its EXCEPT ![id].status = "uploading"]

MayStart_IgnoresRunning(uploading, queue) == ~(Len(queue) = 0)

\* the early return of startUpload negated (upload.js:339)
MayStart(uploading, queue) == ~(uploading \/ Len(queue) = 0)

\* UploadManager.startUpload up to its first await (upload.js:338-350)
startUpload ==
    /\ MayStart(isUploading, uploadQueue)
    /\ batches < MaxBatches
    /\ batches' = batches + 1
    /\ isUploading' = TRUE
    /\ loopArr' = uploadQueue
    /\ loopSame' = TRUE
    /\ loopIdx' = 1
    /\ items' = Uploading(items, uploadQueue[1])
    /\ upc' = "fetch"
    /\ batchLog' = << >>
    /\ UNCHANGED << uploadQueue, pendingFiles, simI, purgeTimers, events, toastErrors >>
    /\ UNCHANGED << httpVars, cacheVars, apiVars, galleryVars, modalVars >>

\* startUpload after uploadFile settled (upload.js:351-373): the next item
\* of the array, or the end of the batch; its is the item table so far
NextItem(its) ==
    IF HasNext(loopArr, loopIdx)
    THEN /\ items' = Uploading(its, NextOf(loopArr, loopIdx))
         /\ loopIdx' = loopIdx + 1
         /\ upc' = "fetch"
         /\ UNCHANGED << isUploading, purgeTimers, loopSame, loopArr >>
    ELSE /\ items' = its
         /\ isUploading' = FALSE
         /\ purgeTimers' = purgeTimers + 1
         /\ upc' = "idle"
         /\ loopSame' = FALSE
         /\ loopArr' = << >>
         /\ loopIdx' = 0

\* the item the running batch is uploading
Current == loopArr[loopIdx]

Failed_StaysUploading(its, id, message) == [its EXCEPT ![id].error = message]

\* the catch block of startUpload (upload.js:352-357) for the item table its
Failed(its, id, message) == [its EXCEPT ![id].status = "error", ![id].error = message]

\* (variant: a successful upload leaves the status as it is)
Completed_KeepsStatus(its, id, progress) == [its EXCEPT ![id].progress = progress]

\* uploadFile after a successful upload (upload.js:404-413, 427-446)
Completed(its, id, progress) ==
    [its EXCEPT ![id].status = "completed", ![id].progress = progress]

\* how an uploadFile call settled (upload.js:350-357): what went wrong, and
\* the message of the error it threw ("" when it returned)
Settled(id, cause, error) == [id |-> id, cause |-> cause, error |-> error]

\* fetch resolved (upload.js:387-402): a response that is not ok throws
UploadResponds(ok) ==
    /\ upc = "fetch"
    /\ IF ok
       THEN /\ upc' = "json"
            /\ UNCHANGED << items, isUploading, purgeTimers, loopSame, loopArr, loopIdx,
                            batchLog >>
       ELSE /\ NextItem(Failed(items, Current, "Upload failed: statusText"))
            /\ batchLog' = Append(batchLog,
                               Settled(Current, "http", "Upload failed: statusText"))
    /\ UNCHANGED << uploadQueue, pendingFiles, simI, batches, events, toastErrors >>
    /\ UNCHANGED << httpVars, cacheVars, apiVars, galleryVars, modalVars >>

\* response.json() settled (upload.js:402-413)
JsonSettles(ok) ==
    /\ upc = "json"
    /\ IF ok
       THEN /\ NextItem(Completed(items, Current, 100))
            /\ events' = [events EXCEPT ![Current] = @ + 1]
            /\ batchLog' = Append(batchLog, Settled(Current, "none", ""))
       ELSE /\ NextItem(Failed(items, Current, "Unexpected token"))
            /\ batchLog' = Append(batchLog, Settled(Current, "json", "Unexpected token"))
            /\ UNCHANGED events
    /\ UNCHANGED << uploadQueue, pendingFiles, simI, batches, toastErrors >>
    /\ UNCHANGED << httpVars, cacheVars, apiVars, galleryVars, modalVars >>

\* fetch rejected (upload.js:415-450): the simulated upload starts when the
\* message of the error contains 'fetch' (the wording is the browser's)
UploadRejects(messageHasFetch) ==
    /\ upc = "fetch"
    /\ IF messageHasFetch
       THEN /\ items' = [items EXCEPT ![Current].progress = 0]
            /\ simI' = 0
            /\ upc' = "sim"
            /\ UNCHANGED << isUploading, purgeTimers, loopSame, loopArr, loopIdx, batchLog >>
       ELSE /\ NextItem(Failed(items, Current, "Load failed"))
            /\ batchLog' = Append(batchLog, Settled(Current, "network", "Load failed"))
            /\ UNCHANGED simI
    /\ UNCHANGED << uploadQueue, pendingFiles, batches, events, toastErrors >>
    /\ UNCHANGED << httpVars, cacheVars, apiVars, galleryVars, modalVars >>

\* the timer of upload.js:424 ran out: the next round of the loop of
\* upload.js:421, or upload.js:427-446
SimulationTick ==
    /\ upc = "sim"
    /\ IF simI + 10 <= 100
       THEN /\ simI' = simI + 10
            /\ items' = [items EXCEPT ![Current].progress = simI + 10]
            /\ UNCHANGED << upc, isUploading, purgeTimers, loopSame, loopArr, loopIdx, events,
                            batchLog >>
       ELSE /\ NextItem(Completed(items, Current, items[Current].progress))
            /\ events' = [events EXCEPT ![Current] = @ + 1]
            /\ batchLog' = Append(batchLog, Settled(Current, "network", ""))
            /\ simI' = 0
    /\ UNCHANGED << uploadQueue, pendingFiles, batches, toastErrors >>
    /\ UNCHANGED << httpVars, cacheVars, apiVars, galleryVars, modalVars >>

\* ===== CacheManager (api.js:499-553) =====
\* this.maxAge (api.js:502)
defaultMaxAge == 5 * 60 * 1000

\* what get returns on a miss (api.js:523, 527)
Null == "null"

\* the keys of a Map
MapKeys(c) == { c[i].key : i \in 1..Len(c) }

\* Map.prototype.get for a key of the Map
MapGet(c, key) == c[CHOOSE i \in 1..Len(c) : c[i].key = key]

\* Map.prototype.delete: the other entries keep their order
MapDelete(c, key) ==
    LET Others(item) == item.key # key
    IN  SelectSeq(c, Others)

MapSet_KeepsExisting(c, item) ==
    IF item.key \in MapKeys(c) THEN c ELSE Append(c, item)

\* Map.prototype.set: a key of the Map keeps its place in the iteration
\* order, a new key goes to the end
MapSet(c, item) ==
    IF item.key \in MapKeys(c)
    THEN [i \in 1..Len(c) |-> IF c[i].key = item.key THEN item ELSE c[i]]
    ELSE Append(c, item)

Evicted_WhenOver(c) == IF Len(c) > maxSize THEN MapDelete(c, c[1].key) ELSE c

\* the cache after the eviction of set (api.js:508-511): a full cache loses
\* the first key of its iteration order
Evicted(c) == IF Len(c) >= maxSize THEN MapDelete(c, c[1].key) ELSE c

Expired_AgainstDefault(item, t) == t - item.timestamp > defaultMaxAge

\* the test of api.js:525 at time t
Expired(item, t) == t - item.timestamp > item.maxAge

\* the value get returns for key at time t (api.js:520-531)
GetResult(c, key, t) ==
    IF key \notin MapKeys(c) THEN Null
    ELSE IF Expired(MapGet(c, key), t) THEN Null
    ELSE MapGet(c, key).value

\* the cache get leaves behind (api.js:525-526)
GetEffect(c, key, t) ==
    IF key \in MapKeys(c) /\ Expired(MapGet(c, key), t) THEN MapDelete(c, key) ELSE c

\* a call of a method, the value it returned and the keys it removed
Call(op, key, value, before, after) ==
    [op |-> op, key |-> key, value |-> value, removed |-> MapKeys(before) \ MapKeys(after)]

\* new CacheManager() (api.js:500-504)
CacheInit ==
    /\ cache = << >>
    /\ now = 0
    /\ ticks = 0
    /\ ret = [op |-> "new", key |-> "", value |-> "undefined", removed |-> {}]

\* CacheManager.set (api.js:506-518)
set(key, value, maxAge) ==
    /\ cache' = MapSet(Evicted(cache),
                       [key |-> key, value |-> value, timestamp |-> now, maxAge |-> maxAge])
    /\ ret' = Call("set", key, "undefined", cache, cache')
    /\ UNCHANGED << now, ticks >>
    /\ UNCHANGED << httpVars, uploadVars, apiVars, galleryVars, modalVars >>

\* CacheManager.get (api.js:520-531)
get(key) ==
    /\ cache' = GetEffect(cache, key, now)
    /\ ret' = Call("get", key, GetResult(cache, key, now), cache, cache')
    /\ UNCHANGED << now, ticks >>
    /\ UNCHANGED << httpVars, uploadVars, apiVars, galleryVars, modalVars >>

\* CacheManager.has (api.js:533-535)
has(key) ==
    /\ cache' = GetEffect(cache, key, now)
    /\ ret' = Call("has", key, IF GetResult(cache, key, now) # Null THEN "true" ELSE "false",
                   cache, cache')
    /\ UNCHANGED << now, ticks >>
    /\ UNCHANGED << httpVars, uploadVars, apiVars, galleryVars, modalVars >>

\* CacheManager.delete (api.js:537-539)
delete(key) ==
    /\ cache' = MapDelete(cache, key)
    /\ ret' = Call("delete", key, IF key \in MapKeys(cache) THEN "true" ELSE "false",
                   cache, cache')
    /\ UNCHANGED << now, ticks >>
    /\ UNCHANGED << httpVars, uploadVars, apiVars, galleryVars, modalVars >>

\* CacheManager.clear (api.js:541-543)
clear ==
    /\ cache' = << >>
    /\ ret' = Call("clear", "", "undefined", cache, cache')
    /\ UNCHANGED << now, ticks >>
    /\ UNCHANGED << httpVars, uploadVars, apiVars, galleryVars, modalVars >>

\* --- CacheManager.generateKey (api.js:545-552).  A params object is the
\* sequence of its [name, value] properties in the order they were written.
\* the UTF-16 code units of the parameter names in use
CodeUnits == [a |-> << 97 >>, ab |-> << 97, 98 >>, b |-> << 98 >>]

\* the order of Array.prototype.sort without a comparator: code unit by code
\* unit, a proper prefix first
RECURSIVE LexLess(_, _)
LexLess(u, v) ==
    IF u = << >> THEN v # << >>
    ELSE IF v = << >> THEN FALSE
    ELSE IF Head(u) # Head(v) THEN Head(u) < Head(v)
    ELSE LexLess(Tail(u), Tail(v))

\* Array.prototype.sort (api.js:547) on a list of names
RECURSIVE InsertName(_, _)
InsertName(n, q) ==
    IF q = << >> THEN << n >>
    ELSE IF LexLess(CodeUnits[n], CodeUnits[Head(q)]) THEN << n >> \o q
    ELSE << Head(q) >> \o InsertName(n, Tail(q))

RECURSIVE Sort(_)
Sort(q) == IF q = << >> THEN << >> ELSE InsertName(Head(q), Sort(Tail(q)))

\* Object.keys (api.js:546)
ObjectKeys(params) == [i \in 1..Len(params) |-> params[i].name]

\* params[key] (api.js:548)
ValueOf(params, name) == params[CHOOSE i \in 1..Len(params) : params[i].name = name].value

SortedKeys_Unsorted(params) == ObjectKeys(params)

\* Object.keys(params).sort() (api.js:546-547)
SortedKeys(params) == Sort(ObjectKeys(params))

\* Array.prototype.join (api.js:549)
RECURSIVE Join(_, _)
Join(q, sep) ==
    IF q = << >> THEN ""
    ELSE IF Len(q) = 1 THEN q[1]
    ELSE q[1] \o sep \o Join(Tail(q), sep)

\* the string generateKey returns (api.js:546-551)
GeneratedKey(endpoint, params) ==
    LET names == SortedKeys(params)
        pairs == [i \in 1..Len(names) |-> names[i] \o "=" \o ValueOf(params, names[i])]
    IN  endpoint \o "?" \o Join(pairs, "&")

\* CacheManager.generateKey (api.js:545-552)
generateKey(endpoint, params) ==
    /\ ret' = [op |-> "generateKey", endpoint |-> endpoint, params |-> params,
               value |-> GeneratedKey(endpoint, params)]
    /\ UNCHANGED << cache, now, ticks >>
    /\ UNCHANGED << httpVars, uploadVars, apiVars, galleryVars, modalVars >>

\* time passes: Date.now() (api.js:515, 525) is d milliseconds later
Tick(d) ==
    /\ ticks < MaxTicks
    /\ ticks' = ticks + 1
    /\ now' = now + d
    /\ UNCHANGED << cache, ret >>
    /\ UNCHANGED << httpVars, uploadVars, apiVars, galleryVars, modalVars >>

Verbs == {"request", "get", "post", "put", "delete"}
OptHeaderChoices == {Absent} \cup { Given(h) : h \in HeaderChoices }

\* the steps of a running request that are not its call
HttpSteps(statuses) ==
    \/ RequestInterceptorStep
    \/ TimeoutFires
    \/ \E status \in statuses : FetchResponds(status)
    \/ ResponseInterceptorStep
    \/ FetchFails
    \/ FetchAborts
    \/ DelayElapsed

\* --- the retry pipeline: every retry configuration, every entry point
\* called without a body or headers of its own, and a success, a client
\* error, a server error or a network failure as the result of each attempt
InitHttp == HttpInit(0..MaxRetryCfg, RetryDelayCfg, {EmptyObj}, {"Bearer t1"}) /\ UploadInit /\ CacheInit /\ ApiInit /\ GalleryInit /\ ModalInit

HttpNext ==
    \/ \E id \in RequestInterceptorIds : addRequestInterceptor(id)
    \/ \E id \in ResponseInterceptorIds : addResponseInterceptor(id)
    \/ \E verb \in Verbs : Request(verb, "none", Absent)
    \/ HttpSteps({200, 404, 503})

SpecHttp == InitHttp /\ [][HttpNext]_vars

\* --- the same pipeline on new HttpClient({ retryAttempts: 0 })
InitNoRetry == HttpInit({0}, RetryDelayCfg, {EmptyObj}, {"Bearer t1"}) /\ UploadInit /\ CacheInit /\ ApiInit /\ GalleryInit /\ ModalInit

SpecNoRetry == InitNoRetry /\ [][HttpNext]_vars

\* --- the headers of a request: every entry point with every body kind and
\* every headers option, on a client with the default retry configuration
InitHeaders == HttpInit({0}, {0}, CtorHeaderChoices, {"none", "Bearer t1"}) /\ UploadInit /\ CacheInit /\ ApiInit /\ GalleryInit /\ ModalInit

HeadersNext ==
    \/ addRequestInterceptor("auth")
    \/ addResponseInterceptor("on401")
    \/ \E verb \in Verbs, data \in {"none", "json", "formdata"}, oh \in OptHeaderChoices :
          Request(verb, data, oh)
    \/ HttpSteps({200, 401, 503})

SpecHeaders == InitHeaders /\ [][HeadersNext]_vars

\* --- the ApiService: every method modelled, with and without a persisted
\* token, and a success, an unauthorized, a client error, a server error, a
\* network failure or a timeout as the result of each attempt
InitApi == HttpInit({0}, {0}, {EmptyObj}, {"none", "Bearer t1"}) /\ UploadInit /\ CacheInit /\ ApiInit /\ GalleryInit /\ ModalInit

ApiNext ==
    \/ setupInterceptors
    \/ \E method \in ReadEndpoints \cup {"deleteImage"} : ApiCall(method)
    \/ HttpSteps({200, 401, 404, 503})
    \/ RequestSettled
    \/ \E ok \in BOOLEAN : ParseSettles(ok)

SpecApi == InitApi /\ [][ApiNext]_vars

\* --- the token store: a call of the ApiService next to login and logout
\* calls, whose posts settle at any moment of that call
AuthNext ==
    \/ setupInterceptors
    \/ \E method \in {"getImages", "deleteImage"} : ApiCall(method)
    \/ HttpSteps({200, 401, 503})
    \/ RequestSettled
    \/ ParseSettles(TRUE)
    \/ \E method \in {"login", "logout"} : AuthCall(method)
    \/ \E outcome \in {"token", "body", "failed"} : LoginSettles(outcome)
    \/ LogoutSettles

SpecAuth == InitApi /\ [][AuthNext]_vars

\* --- the upload queue: drops of one or two valid files whose previews
\* load, and every result of an upload
UploadFiles == { f \in FileChoices : f.type = "image/png" }

InitUpload == HttpInit({0}, {0}, {EmptyObj}, {"none"}) /\ UploadInit /\ CacheInit /\ ApiInit /\ GalleryInit /\ ModalInit

UploadNext ==
    \/ \E files \in FileLists(UploadFiles) : handleFiles(files)
    \/ PreviewSettles(TRUE)
    \/ \E id \in 1..MaxFiles : removeUploadItem(id)
    \/ clearCompletedUploads
    \/ clearAllUploads
    \/ startUpload
    \/ \E ok \in BOOLEAN : UploadResponds(ok)
    \/ \E ok \in BOOLEAN : JsonSettles(ok)
    \/ \E hasFetch \in BOOLEAN : UploadRejects(hasFetch)
    \/ SimulationTick

SpecUpload == InitUpload /\ [][UploadNext]_vars

\* the steps by which the submission of the current item settles: the answer
\* to fetch, response.json(), and the timers of the simulated upload
UploadSettles ==
    \/ \E ok \in BOOLEAN : UploadResponds(ok)
    \/ \E ok \in BOOLEAN : JsonSettles(ok)
    \/ \E hasFetch \in BOOLEAN : UploadRejects(hasFetch)
    \/ SimulationTick

\* --- the upload queue when every submission settles in the end: the promise
\* uploadFile awaits is settled and the timers of simulateUpload run out
FairUpload == SpecUpload /\ WF_vars(UploadSettles)

\* --- the intake of files: drops of one or two files of every kind, previews
\* that load or fail, discards
IntakeNext ==
    \/ \E files \in FileLists(FileChoices) : handleFiles(files)
    \/ \E ok \in BOOLEAN : PreviewSettles(ok)
    \/ \E id \in 1..MaxFiles : removeUploadItem(id)
    \/ clearAllUploads

SpecIntake == InitUpload /\ [][IntakeNext]_vars

\* --- the batch: a queue of one to MaxQueued pending items, as drops of
\* valid files leave it, then batches and their purges
QueuedItems(n) == [i \in 1..n |-> NewItem(CHOOSE f \in UploadFiles : TRUE, TRUE)]

InitBatch ==
    /\ HttpInit({0}, {0}, {EmptyObj}, {"none"})
    /\ \E n \in 1..MaxQueued :
          /\ items = QueuedItems(n)
          /\ uploadQueue = [i \in 1..n |-> i]
          /\ events = [i \in 1..n |-> 0]
    /\ isUploading = FALSE
    /\ pendingFiles = << >>
    /\ upc = "idle"
    /\ loopArr = << >>
    /\ loopSame = FALSE
    /\ loopIdx = 0
    /\ simI = 0
    /\ purgeTimers = 0
    /\ batches = 0
    /\ batchLog = << >>
    /\ toastErrors = << >>
    /\ CacheInit /\ ApiInit /\ GalleryInit /\ ModalInit

BatchNext ==
    \/ clearCompletedUploads
    \/ startUpload
    \/ \E ok \in BOOLEAN : UploadResponds(ok)
    \/ \E ok \in BOOLEAN : JsonSettles(ok)
    \/ \E hasFetch \in BOOLEAN : UploadRejects(hasFetch)
    \/ SimulationTick

SpecBatch == InitBatch /\ [][BatchNext]_vars

\* --- the cache: sets of four keys (two values and two lifetimes for the
\* first, a response that is null for the second), lookups, deletions and a
\* clock that advances by a millisecond or by the default lifetime
KeyChoices == {"a", "b", "c", "d"}
SetChoices ==
    { << "a", v, m >> : v \in {"v1", "v2"}, m \in {defaultMaxAge, 1} }
        \cup { << k, "v1", defaultMaxAge >> : k \in KeyChoices \ {"a"} }
        \cup { << "b", Null, defaultMaxAge >> }
TickChoices == {1, defaultMaxAge}

InitCache == HttpInit({0}, {0}, {EmptyObj}, {"none"}) /\ UploadInit /\ CacheInit /\ ApiInit /\ GalleryInit /\ ModalInit

CacheNext ==
    \/ \E c \in SetChoices : set(c[1], c[2], c[3])
    \/ \E key \in KeyChoices : get(key)
    \/ \E key \in KeyChoices : has(key)
    \/ \E key \in KeyChoices : delete(key)
    \/ clear
    \/ \E d \in TickChoices : Tick(d)

SpecCache == InitCache /\ [][CacheNext]_vars

\* --- the keys of the cache: generateKey for two endpoints and every params
\* object with up to three of the properties a: 1, ab: 3, b: 2, written in
\* every order; sets and lookups under the keys it returns for endpoint "e"
Endpoints == {"e", "/api/images"}
Properties == { [name |-> "a", value |-> "1"], [name |-> "ab", value |-> "3"],
                [name |-> "b", value |-> "2"] }
ParamChoices ==
    { p \in UNION { [1..n -> Properties] : n \in 0..3 } :
        \A i, j \in 1..Len(p) : i # j => p[i].name # p[j].name }

KeysNext ==
    \/ \E e \in Endpoints, p \in ParamChoices : generateKey(e, p)
    \/ \E p \in ParamChoices : set(GeneratedKey("e", p), "v1", defaultMaxAge)
    \/ \E p \in ParamChoices : get(GeneratedKey("e", p))
    \/ clear

SpecKeys == InitCache /\ [][KeysNext]_vars

\* ===== GalleryManager (gallery.js) =====
\* text is written as the sequence of its UTF-16 code units; the empty
\* sequence stands for '' and for a property that is not there (both falsy);
\* size and uploadDate 0 stand for a property that is not there
\* "Sun", "sun", "sea", "An", "US", "a", "Nu", "SUN", "us", "an", "s"
ImageRecords ==
    << [id |-> 1, title |-> << 83, 117, 110 >>, description |-> << >>,
        tags |-> << << 115, 101, 97 >> >>, filename |-> << 115, 117, 110 >>,
        size |-> 156789, uploadDate |-> 3],
       [id |-> 2, title |-> << 115, 101, 97 >>, description |-> << 65, 110 >>,
        tags |-> << >>, filename |-> << >>,
        size |-> 234567, uploadDate |-> 2],
       [id |-> 3, title |-> << >>, description |-> << >>,
        tags |-> << << 85, 83 >>, << 97 >> >>, filename |-> << 78, 117 >>,
        size |-> 198456, uploadDate |-> 1],
       [id |-> 4, title |-> << 83, 85, 78 >>, description |-> << >>,
        tags |-> << >>, filename |-> << 117, 115 >>,
        size |-> 156789, uploadDate |-> 3],
       [id |-> 5, title |-> << 97, 110 >>, description |-> << 115 >>,
        tags |-> << >>, filename |-> << >>,
        size |-> 0, uploadDate |-> 0] >>

\* String.prototype.toLowerCase on the letters A-Z
toLowerCase(text) ==
    [i \in 1..Len(text) |-> IF text[i] >= 65 /\ text[i] <= 90 THEN text[i] + 32 ELSE text[i]]

\* String.prototype.includes
Includes(text, part) ==
    \E k \in 0..(Len(text) - Len(part)) : SubSeq(text, k + 1, k + Len(part)) = part

\* (variant: the filename is not looked at)
Matches_NoFilename(image, lowerQuery) ==
    \/ image.title # << >> /\ Includes(toLowerCase(image.title), lowerQuery)
    \/ image.description # << >> /\ Includes(toLowerCase(image.description), lowerQuery)
    \/ \E t \in 1..Len(image.tags) : Includes(toLowerCase(image.tags[t]), lowerQuery)

\* the predicate of gallery.js:468-475
Matches(image, lowerQuery) ==
    \/ image.title # << >> /\ Includes(toLowerCase(image.title), lowerQuery)
    \/ image.description # << >> /\ Includes(toLowerCase(image.description), lowerQuery)
    \/ \E t \in 1..Len(image.tags) : Includes(toLowerCase(image.tags[t]), lowerQuery)
    \/ image.filename # << >> /\ Includes(toLowerCase(image.filename), lowerQuery)

\* the list filterImages assigns to this.filteredImages (gallery.js:463-476)
FilteredBy(list, query) ==
    IF query = << >> THEN list
    ELSE LET Keeps(id) == Matches(ImageRecords[id], toLowerCase(query))
         IN  SelectSeq(list, Keeps)

\* aVal and bVal of gallery.js:440-454
SortValue(image, by) ==
    IF by = "name"
    THEN toLowerCase(IF image.title # << >> THEN image.title ELSE image.filename)
    ELSE IF by = "size" THEN image.size
    ELSE image.uploadDate

\* aVal < bVal for two values of the same sort key
Before(x, y, by) == IF by = "name" THEN LexLess(x, y) ELSE x < y

\* (variant: the order is not looked at)
Compare_AlwaysDescending(a, b, by, order) ==
    IF Before(SortValue(a, by), SortValue(b, by), by) THEN 1
    ELSE IF Before(SortValue(b, by), SortValue(a, by), by) THEN -1
    ELSE 0

\* the comparator of gallery.js:437-459
Compare(a, b, by, order) ==
    IF Before(SortValue(a, by), SortValue(b, by), by)
    THEN (IF order = "asc" THEN -1 ELSE 1)
    ELSE IF Before(SortValue(b, by), SortValue(a, by), by)
         THEN (IF order = "asc" THEN 1 ELSE -1)
         ELSE 0

\* Array.prototype.sort with that comparator: a stable sort
RECURSIVE InsertImage(_, _, _, _)
InsertImage(id, q, by, order) ==
    IF q = << >> THEN << id >>
    ELSE IF Compare(ImageRecords[id], ImageRecords[Head(q)], by, order) < 0 THEN << id >> \o q
    ELSE << Head(q) >> \o InsertImage(id, Tail(q), by, order)

\* this.filteredImages after sortImages() (gallery.js:436-460)
RECURSIVE SortedImages(_, _, _)
SortedImages(list, by, order) ==
    IF list = << >> THEN << >>
    ELSE InsertImage(list[Len(list)], SortedImages(SubSeq(list, 1, Len(list) - 1), by, order),
                     by, order)

\* list.filter((img) => img.id !== id) (gallery.js:385-388)
Without(list, id) == LET Others(x) == x # id IN SelectSeq(list, Others)

RemoveAt(q, i) == SubSeq(q, 1, i - 1) \o SubSeq(q, i + 1, Len(q))

\* (variant: no guard against a second call)
MayLoad_Always(loading) == TRUE

\* the guard of gallery.js:52
MayLoad(loading) == ~loading

\* gallery.js:52-60: loadImages up to its first await, for page `page`
StartLoad(page) ==
    IF MayLoad(isLoading)
    THEN /\ isLoading' = TRUE
         /\ loads' = Append(loads, [stage |-> "fetch", page |-> page])
    ELSE UNCHANGED << isLoading, loads >>

\* loadImages() called by the page
loadImages ==
    /\ currentPage > 1 => Len(images) < MaxImages
    /\ StartLoad(currentPage)
    /\ gret' = [op |-> "loadImages", id |-> 0]
    /\ UNCHANGED << images, filteredImages, currentPage, sortBy, sortOrder, deletes, toast >>
    /\ UNCHANGED << httpVars, uploadVars, cacheVars, apiVars, modalVars >>

\* handleScroll (gallery.js:543-552); nearBottom: the viewport is within
\* 1000px of the end of the document
handleScroll(nearBottom) ==
    /\ IF nearBottom /\ ~isLoading
       THEN /\ currentPage < MaxPage
            /\ Len(images) < MaxImages
            /\ currentPage' = currentPage + 1
            /\ StartLoad(currentPage + 1)
            /\ gret' = [op |-> "handleScroll", id |-> 0]
       ELSE /\ UNCHANGED << currentPage, isLoading, loads >>
            /\ gret' = [op |-> "handleScroll", id |-> 0]
    /\ UNCHANGED << images, filteredImages, sortBy, sortOrder, deletes, toast >>
    /\ UNCHANGED << httpVars, uploadVars, cacheVars, apiVars, modalVars >>

\* the catch block of loadImages (gallery.js:77-85)
LoadFailed ==
    /\ IF currentPage = 1
       THEN \* loadDemoData (gallery.js:92-129): its three records
            /\ images' = << 1, 2, 3 >>
            /\ filteredImages' = << 1, 2, 3 >>
       ELSE UNCHANGED << images, filteredImages >>
    /\ toast' = "Failed to load images"
    /\ gret' = [op |-> "loadFailed", id |-> 0]

\* fetch of call i resolved with a response (gallery.js:58-64)
ListResponds(i, status) ==
    /\ i \in 1..Len(loads)
    /\ loads[i].stage = "fetch"
    /\ IF Ok(status)
       THEN /\ loads' = [loads EXCEPT ![i].stage = "json"]
            /\ gret' = [op |-> "responded", id |-> 0]
            /\ UNCHANGED << images, filteredImages, isLoading, toast >>
       ELSE /\ LoadFailed
            /\ isLoading' = FALSE
            /\ loads' = RemoveAt(loads, i)
    /\ UNCHANGED << currentPage, sortBy, sortOrder, deletes >>
    /\ UNCHANGED << httpVars, uploadVars, cacheVars, apiVars, modalVars >>

\* fetch of call i rejected: the network call itself failed
ListFetchFails(i) ==
    /\ i \in 1..Len(loads)
    /\ loads[i].stage = "fetch"
    /\ LoadFailed
    /\ isLoading' = FALSE
    /\ loads' = RemoveAt(loads, i)
    /\ UNCHANGED << currentPage, sortBy, sortOrder, deletes >>
    /\ UNCHANGED << httpVars, uploadVars, cacheVars, apiVars, modalVars >>

\* response.json() of call i settled (gallery.js:66-76); data: data.images,
\* << >> when it is not there
ListJsonSettles(i, ok, data) ==
    /\ i \in 1..Len(loads)
    /\ loads[i].stage = "json"
    /\ IF ok
       THEN LET loaded == IF currentPage = 1 THEN data ELSE images \o data
            IN  /\ images' = loaded
                /\ filteredImages' = SortedImages(loaded, sortBy, sortOrder)
                /\ gret' = [op |-> "loaded", id |-> 0]
                /\ UNCHANGED toast
       ELSE LoadFailed
    /\ isLoading' = FALSE
    /\ loads' = RemoveAt(loads, i)
    /\ UNCHANGED << currentPage, sortBy, sortOrder, deletes >>
    /\ UNCHANGED << httpVars, uploadVars, cacheVars, apiVars, modalVars >>

\* addImage(imageData) (gallery.js:427-434), the handler of 'imageUploaded'
addImage(id) ==
    /\ Len(images) < MaxImages
    /\ images' = << id >> \o images
    /\ filteredImages' = SortedImages(<< id >> \o images, sortBy, sortOrder)
    /\ gret' = [op |-> "addImage", id |-> id]
    /\ UNCHANGED << currentPage, isLoading, sortBy, sortOrder, loads, deletes, toast >>
    /\ UNCHANGED << httpVars, uploadVars, cacheVars, apiVars, modalVars >>

\* filterImages(query) (gallery.js:462-480)
filterImages(query) ==
    /\ filteredImages' = FilteredBy(images, query)
    /\ gret' = [op |-> "filterImages", id |-> 0]
    /\ UNCHANGED << images, currentPage, isLoading, sortBy, sortOrder, loads, deletes, toast >>
    /\ UNCHANGED << httpVars, uploadVars, cacheVars, apiVars, modalVars >>

\* the page assigns the public fields sortBy and sortOrder (gallery.js:12-13)
SetSort(by, order) ==
    /\ << by, order >> # << sortBy, sortOrder >>
    /\ sortBy' = by
    /\ sortOrder' = order
    /\ gret' = [op |-> "setSort", id |-> 0]
    /\ UNCHANGED << images, filteredImages, currentPage, isLoading, loads, deletes, toast >>
    /\ UNCHANGED << httpVars, uploadVars, cacheVars, apiVars, modalVars >>

\* deleteImage(image) up to its await (gallery.js:372-380); confirmed: the
\* answer to confirm()
deleteImage(id, confirmed) ==
    /\ confirmed => Len(deletes) < MaxDeletes
    /\ deletes' = IF confirmed THEN Append(deletes, id) ELSE deletes
    /\ gret' = [op |-> "deleteImage", id |-> id]
    /\ UNCHANGED << images, filteredImages, currentPage, isLoading, sortBy, sortOrder,
                    loads, toast >>
    /\ UNCHANGED << httpVars, uploadVars, cacheVars, apiVars, modalVars >>

\* (variant: every response counts as a success)
Removes_AnyResponse(status) == TRUE

\* response.ok at gallery.js:382
Removes(status) == Ok(status)

\* the catch block of deleteImage (gallery.js:403-406)
DeleteFailed(i) ==
    /\ toast' = "Failed to delete image"
    /\ gret' = [op |-> "deleteFailed", id |-> deletes[i]]
    /\ UNCHANGED << images, filteredImages >>

\* fetch of deleteImage call i resolved with a response (gallery.js:382-402)
DeleteResponds(i, status) ==
    /\ i \in 1..Len(deletes)
    /\ IF Removes(status)
       THEN /\ images' = Without(images, deletes[i])
            /\ filteredImages' = Without(filteredImages, deletes[i])
            /\ toast' = "Image deleted successfully!"
            /\ gret' = [op |-> "deleted", id |-> deletes[i]]
       ELSE DeleteFailed(i)
    /\ deletes' = RemoveAt(deletes, i)
    /\ UNCHANGED << currentPage, isLoading, sortBy, sortOrder, loads >>
    /\ UNCHANGED << httpVars, uploadVars, cacheVars, apiVars, modalVars >>

\* fetch of deleteImage call i rejected: the network call itself failed
DeleteRejects(i) ==
    /\ i \in 1..Len(deletes)
    /\ DeleteFailed(i)
    /\ deletes' = RemoveAt(deletes, i)
    /\ UNCHANGED << currentPage, isLoading, sortBy, sortOrder, loads >>
    /\ UNCHANGED << httpVars, uploadVars, cacheVars, apiVars, modalVars >>

\* --- the image list: pages as the backend may return them, failures,
\* scrolling, an uploaded image and every sort setting
PageChoices == { << >>, << 1 >>, << 2, 3 >>, << 3, 5 >> }

InitGallery == HttpInit({0}, {0}, {EmptyObj}, {"none"}) /\ UploadInit /\ CacheInit /\ ApiInit /\ GalleryInit /\ ModalInit

GalleryNext ==
    \/ loadImages
    \/ \E nearBottom \in BOOLEAN : handleScroll(nearBottom)
    \/ \E i \in 1..Len(loads), status \in {200, 500} : ListResponds(i, status)
    \/ \E i \in 1..Len(loads) : ListFetchFails(i)
    \/ \E i \in 1..Len(loads), ok \in BOOLEAN, data \in PageChoices : ListJsonSettles(i, ok, data)
    \/ addImage(4)
    \/ \E by \in {"date", "name", "size"}, order \in {"asc", "desc"} : SetSort(by, order)

SpecGallery == InitGallery /\ [][GalleryNext]_vars

\* --- searching and deleting: the first page as the backend may return it,
\* an uploaded image, searches and deletions that succeed or fail
Queries == { << >>, << 115 >>, << 85, 83 >>, << 83, 69, 65 >>, << 110, 117 >>, << 122 >> }

SearchNext ==
    \/ \E i \in 1..Len(loads) : ListResponds(i, 200)
    \/ \E i \in 1..Len(loads), data \in PageChoices : ListJsonSettles(i, TRUE, data)
    \/ loadImages
    \/ addImage(4)
    \/ \E query \in Queries : filterImages(query)
    \/ \E id \in Range(filteredImages), confirmed \in BOOLEAN : deleteImage(id, confirmed)
    \/ \E i \in 1..Len(deletes), status \in {200, 404, 500} : DeleteResponds(i, status)
    \/ \E i \in 1..Len(deletes) : DeleteRejects(i)

SpecSearch == InitGallery /\ [][SearchNext]_vars

\* --- the modals: opens and closes at any moment, timers that run out
ModalNext ==
    \/ open
    \/ close
    \/ ShowTimerFires
    \/ CloseTimerFires

SpecModal == InitGallery /\ [][ModalNext]_vars

\* ===== properties of HttpClient.request =====
Last(q) == q[Len(q)]

RECURSIVE SumSeq(_)
SumSeq(q) == IF q = << >> THEN 0 ELSE q[1] + SumSeq(Tail(q))

\* an attempt that ended in a 5xx response or a network error
TransientOutcome(o) == o.name = "TypeError" \/ (o.name = "response" /\ o.status >= 500)
\* an attempt that received a 2xx response
SuccessOutcome(o) == o.name = "response" /\ Ok(o.status)
\* an attempt that received a 4xx response
ClientErrorOutcome(o) == o.name = "response" /\ o.status >= 400 /\ o.status < 500
\* the error request throws for an attempt that ended in o
ErrorOf(o) == IF o.name = "response" THEN HttpError(o.status) ELSE o

IsPrefix(p, q) == Len(p) <= Len(q) /\ p = SubSeq(q, 1, Len(p))

\* C1: when the first k <= retryAttempts fetch calls of a request each end in a
\* 5xx response or a network error and call k+1 receives a 2xx response, the
\* request resolves with that response; and a request whose calls all ended
\* that way did not give up before call retryAttempts + 1.
C1_RetryUntilSuccess ==
    /\ \A k \in 0..retryAttempts :
          ( /\ pc = "done"
            /\ Len(outcomes) = k + 1
            /\ \A i \in 1..k : TransientOutcome(outcomes[i])
            /\ SuccessOutcome(outcomes[k + 1]) )
          => result = Resolved(outcomes[k + 1].status)
    /\ ( /\ pc = "done"
         /\ \A i \in 1..Len(outcomes) : TransientOutcome(outcomes[i]) )
       => Len(outcomes) = retryAttempts + 1

\* 503, 503, 200 returns the 200 response
C1_Witness ==
    /\ pc = "done"
    /\ outcomes = << [name |-> "response", status |-> 503],
                     [name |-> "response", status |-> 503],
                     [name |-> "response", status |-> 200] >>
    /\ result = Resolved(200)

\* C2: a 4xx response is never retried: it is the last fetch call of its
\* request, no backoff delay follows it, and the request fails with an
\* HttpError carrying its status (a 4xx on the first attempt: one fetch call,
\* no delay at all).
C2_ClientErrorNotRetried ==
    \A i \in 1..Len(outcomes) :
        ClientErrorOutcome(outcomes[i]) =>
            /\ i = Len(outcomes)
            /\ Len(sent) = i
            /\ Len(delays) = i - 1
            /\ pc \in {"respInt", "done"}
            /\ pc = "done" => result = Rejected(HttpError(outcomes[i].status))

C2_Witness ==
    /\ pc = "done"
    /\ outcomes = << [name |-> "response", status |-> 404] >>
    /\ Len(sent) = 1
    /\ delays = << >>
    /\ result = Rejected(HttpError(404))

\* C3: a timeout that expires during attempt i < retryAttempts leads to another
\* dispatch: a request ends with the timeout's abort error only after its
\* retry budget is used up (retryAttempts + 1 fetch calls).
C3_TimeoutIsRetried ==
    (pc = "done" /\ result = Rejected(AbortError)) => Len(outcomes) = retryAttempts + 1

\* C4: a request makes at most retryAttempts + 1 fetch calls, and a transient
\* error (5xx, network error, timeout) reaches the caller only when the retry
\* budget is used up, and then it is the error of the last attempt.
C4_TransientOnlyWhenExhausted ==
    /\ Len(sent) <= retryAttempts + 1
    /\ ( /\ pc = "done"
         /\ result.kind = "rejected"
         /\ ~(result.error.status >= 400 /\ result.error.status < 500) )
       => /\ Len(outcomes) = retryAttempts + 1
          /\ result.error = ErrorOf(Last(outcomes))

\* C5: the fetch call with 0-based index k >= 1 is preceded by a wait of
\* retryDelay * 2^(k-1), and nothing is waited after the last fetch call, so
\* the waits are the first Len(sent) - 1 powers; two transient failures and a
\* success have waited base + 2*base.
C5_ExponentialBackoff ==
    /\ \A j \in 1..Len(delays) : delays[j] = retryDelay * (2 ^ (j - 1))
    /\ Len(sent) >= 1 => Len(delays) = Len(sent) - 1
    /\ (pc = "done" /\ Len(outcomes) = 3 /\ result.kind = "resolved")
          => SumSeq(delays) = retryDelay + 2 * retryDelay

C5_Witness ==
    /\ pc = "done"
    /\ Len(outcomes) = 4
    /\ result.kind = "rejected"
    /\ delays = << retryDelay, 2 * retryDelay, 4 * retryDelay >>

\* C6: the request interceptors are invoked one after the other in
\* registration order; no fetch call is made while the loop runs, and at every
\* fetch call all interceptors registered when request was called have run.
C6_RequestInterceptorsInOrder ==
    /\ IsPrefix(reqLog, interceptors.request)
    /\ pc = "reqInt" => sent = << >> /\ Len(reqLog) = idx
    /\ Len(sent) >= 1 => IsPrefix(regAtCall, reqLog)

C6_Witness ==
    /\ pc = "fetch"
    /\ regAtCall = << "reqA", "auth" >>
    /\ reqLog = << "reqA", "auth" >>

\* C7: when request resolves, the response interceptors have been invoked on
\* the returned response in registration order, all those registered when the
\* response arrived among them; while they run nothing is returned yet.
C7_ResponseInterceptorsInOrder ==
    /\ pc = "respInt" => result = NoResult /\ Len(respLog) = idx
    /\ (pc = "done" /\ result.kind = "resolved") =>
          /\ result.status = response
          /\ SuccessOutcome(Last(outcomes))
          /\ IsPrefix(respLog, interceptors.response)
          /\ IsPrefix(regAtRecv, respLog)

C7_Witness ==
    /\ pc = "done"
    /\ result = Resolved(200)
    /\ regAtRecv = << "respA", "on401" >>
    /\ respLog = << "respA", "on401" >>

\* C8: a fetch call of HttpClient.post with a FormData body never carries the
\* content type application/json.
C8_NoJsonTypeForFormData ==
    \A i \in 1..Len(sent) :
        (call.verb = "post" /\ sent[i].body = "formdata") =>
            \/ "content-type" \notin DOMAIN sent[i].headers
            \/ JSON_TYPE \notin sent[i].headers["content-type"]

\* C9: a fetch call of request(url, options) with options.headers given carries
\* every caller header and every default header whose name the caller did not
\* override.
C9_HeadersMergedWithDefaults ==
    \A i \in 1..Len(sent) :
        (call.verb = "request" /\ call.headers.defined) =>
            LET caller == call.headers.h
                wire == sent[i].headers
            IN  /\ \A k \in DOMAIN caller :
                      Lower(k) \in DOMAIN wire /\ caller[k] \in wire[Lower(k)]
                /\ \A d \in DOMAIN defaultHeaders :
                      (Lower(d) \notin { Lower(k) : k \in DOMAIN caller }) =>
                          Lower(d) \in DOMAIN wire /\ defaultHeaders[d] \in wire[Lower(d)]


\* ===== properties of the upload queue =====
\* the status changes of section 4.4: pending -> uploading -> {completed | error}
StatusSteps == { << "pending", "uploading" >>,
                 << "uploading", "completed" >>,
                 << "uploading", "error" >> }

\* C10: whatever the pipeline does, the status of an upload item changes only
\* along pending -> uploading, uploading -> completed and uploading -> error;
\* completed and error are never left.
C10_StatusTransitions ==
    [][ \A id \in 1..Len(items) :
            items'[id].status # items[id].status =>
                << items[id].status, items'[id].status >> \in StatusSteps ]_vars

\* ===== properties of the upload batch =====
\* the items whose status is 'uploading'
UploadingItems == { id \in 1..Len(items) : items[id].status = "uploading" }

\* C11: at any moment at most one item of the queue has status 'uploading' and
\* at most one submission is in flight: the only item that is uploading is the
\* one the running batch is at, a submission is outstanding only while the
\* batch runs, and while it runs startUpload may not start a second one
C11_OneUploadAtATime ==
    /\ Cardinality(UploadingItems) <= 1
    /\ (upc # "idle") <=> isUploading
    /\ isUploading <=> (UploadingItems # {})
    /\ isUploading => /\ loopIdx \in 1..Len(loopArr)
                      /\ UploadingItems = {Current}
                      /\ ~ENABLED startUpload

\* a batch over two items is at its second item, after the first completed
C11_Witness ==
    /\ isUploading
    /\ Len(loopArr) = 2
    /\ loopIdx = 2
    /\ upc = "fetch"
    /\ items[loopArr[1]].status = "completed"
    /\ items[loopArr[2]].status = "uploading"

\* C12: one item's failure does not abort the batch: when a batch ends, every
\* item of the array it ran over was attempted, in order; each item whose
\* uploadFile call threw has status 'error' and the message of the error, and
\* each other item has status 'completed'
C12_FailureDoesNotAbortBatch ==
    [][ (isUploading /\ ~isUploading') =>
          /\ Len(batchLog') = Len(loopArr)
          /\ \A j \in 1..Len(loopArr) :
                /\ batchLog'[j].id = loopArr[j]
                /\ IF batchLog'[j].error # ""
                   THEN /\ items'[loopArr[j]].status = "error"
                        /\ items'[loopArr[j]].error = batchLog'[j].error
                   ELSE items'[loopArr[j]].status = "completed" ]_vars

\* a batch over three items ended, the second item failed on a response that
\* was not ok: [completed, error, completed]
C12_Witness ==
    /\ ~isUploading
    /\ batches = 1
    /\ Len(batchLog) = 3
    /\ [j \in 1..3 |-> batchLog[j].id] = << 1, 2, 3 >>
    /\ batchLog[2].cause = "http"
    /\ [j \in 1..3 |-> items[j].status] = << "completed", "error", "completed" >>
    /\ items[2].error = "Upload failed: statusText"

\* C13: each successfully uploaded item causes exactly one 'imageUploaded'
\* event, dispatched when its status became 'completed' with progress 100, and
\* an item that ends in error causes none: an item has one event when its
\* status is 'completed', no event when its status is 'pending' or 'error',
\* and never more than one
C13_OneEventPerCompletedItem ==
    \A id \in 1..Len(items) :
        /\ events[id] <= 1
        /\ items[id].status = "completed" => (events[id] = 1 /\ items[id].progress = 100)
        /\ items[id].status \in {"pending", "error"} => events[id] = 0

\* ===== properties of the intake of files =====
\* a file of an allowed image type that is not larger than the ceiling
Admissible(file) == file.type \in allowedTypes /\ file.size <= maxFileSize
Inadmissible(file) == ~Admissible(file)

\* the rejection the claim gives an inadmissible file
RejectionOf(file) ==
    [name |-> file.name,
     error |-> IF file.type \notin allowedTypes THEN TYPE_ERROR ELSE SIZE_ERROR]

\* C14: a file enters the upload queue if and only if its type is an allowed
\* image type and its size is at most maxFileSize: a drop hands on exactly its
\* admissible files, in order, and reports every other file with the type
\* error (type not allowed) or the size error (allowed type, too large); each
\* file handed on is queued when its preview settled, whether it loaded or
\* not; no item ever holds an inadmissible file
C14_QueuedIffValid ==
    [][ /\ \A files \in FileLists(FileChoices) :
              handleFiles(files) =>
                  /\ pendingFiles' = SelectSeq(files, Admissible)
                  /\ LET rejected == SelectSeq(files, Inadmissible)
                     IN  rejected # << >> =>
                            toastErrors' = [j \in 1..Len(rejected) |-> RejectionOf(rejected[j])]
        /\ \A ok \in BOOLEAN :
              PreviewSettles(ok) =>
                  /\ Len(items') = Len(items) + 1
                  /\ items'[Len(items')].file = Head(pendingFiles)
                  /\ uploadQueue' = Append(uploadQueue, Len(items'))
        /\ \A id \in 1..Len(items') : Admissible(items'[id].file) ]_vars

\* the GIF of exactly the ceiling is queued; the 12 MB JPEG and the text file
\* of a second drop were rejected, one with the size error, one with the
\* type error, and nothing of that drop is queued
C14_Witness ==
    /\ Len(items) = 1
    /\ items[1].file.name = "anim.gif"
    /\ items[1].file.size = maxFileSize
    /\ uploadQueue = << 1 >>
    /\ pendingFiles = << >>
    /\ toastErrors = << [name |-> "big.jpg", error |-> SIZE_ERROR],
                        [name |-> "notes.txt", error |-> TYPE_ERROR] >>

\* C15: whenever the submission of an item fails because the network call
\* itself failed (fetch rejected), the upload is simulated instead: the call
\* settles without an error, with the item 'completed' at progress 100 and one
\* more 'imageUploaded' event for it
C15_UnreachableBackendIsSimulated ==
    [][ (Len(batchLog') = Len(batchLog) + 1 /\ Last(batchLog').cause = "network") =>
            LET id == Last(batchLog').id
            IN  /\ Last(batchLog').error = ""
                /\ items'[id].status = "completed"
                /\ items'[id].progress = 100
                /\ events'[id] = events[id] + 1 ]_vars

\* C16: when the display delay after a batch has elapsed and the purge runs,
\* every item with status 'completed' leaves the queue, and every other item
\* of the queue ('error', 'pending', or 'uploading' in a later batch) stays in
\* it, in the same order; the items themselves are not touched
C16_PurgeRemovesCompletedOnly ==
    [][ purgeTimers' < purgeTimers =>
          /\ \A id \in Range(uploadQueue') : items'[id].status # "completed"
          /\ \A id \in Range(uploadQueue) :
                items[id].status # "completed" => id \in Range(uploadQueue')
          /\ \A i, j \in 1..Len(uploadQueue') :
                i < j => \E k, l \in 1..Len(uploadQueue) :
                            /\ k < l
                            /\ uploadQueue[k] = uploadQueue'[i]
                            /\ uploadQueue[l] = uploadQueue'[j]
          /\ Range(uploadQueue') \subseteq Range(uploadQueue)
          /\ items' = items ]_vars

\* the purge of the only batch has run: the item that completed is gone from
\* the queue, the item that failed is still in it
C16_Witness ==
    /\ batches = 1
    /\ ~isUploading
    /\ purgeTimers = 0
    /\ Len(items) = 2
    /\ items[1].status = "completed"
    /\ items[2].status = "error"
    /\ [j \in 1..Len(batchLog) |-> batchLog[j].id] = << 1, 2 >>
    /\ uploadQueue = << 2 >>

\* C17: the progress of every upload item is an integer of 0..100, it never
\* decreases while the item is uploading, and an item with status 'completed'
\* has progress 100
C17_ProgressBoundedMonotone ==
    [][ \A id \in 1..Len(items') :
          /\ items'[id].progress \in 0..100
          /\ items'[id].status = "completed" => items'[id].progress = 100
          /\ (id <= Len(items) /\ items[id].status = "uploading") =>
                items'[id].progress >= items[id].progress ]_vars

\* ===== properties of CacheManager =====
\* C18: cache round trip: in every cache state, full or not, whether the key
\* is new or overwritten, a get(k) at the moment set(k, v) returned finds the
\* entry, returns v and leaves the cache as it is
C18_SetThenGet ==
    [][ \A c \in SetChoices :
          (ret'.op = "set" /\ ret'.key = c[1] /\ set(c[1], c[2], c[3])) =>
              /\ GetResult(cache', c[1], now') = c[2]
              /\ GetEffect(cache', c[1], now') = cache' ]_vars

\* key "a" was overwritten with a second value in a cache that was full, long
\* after its first set; the set evicted another key, and a lookup finds the
\* second value
C18_Witness ==
    /\ ret.op = "set"
    /\ ret.key = "a"
    /\ ret.removed # {}
    /\ now >= defaultMaxAge
    /\ "a" \in MapKeys(cache)
    /\ MapGet(cache, "a").value = "v2"
    /\ MapGet(cache, "a").timestamp = now
    /\ GetResult(cache, "a", now) = "v2"

\* an entry of key whose age at the time now is larger than its maxAge
ExpiredEntry(key) ==
    /\ key \in MapKeys(cache)
    /\ now - MapGet(cache, key).timestamp > MapGet(cache, key).maxAge

\* C19: the cache never returns an expired entry: a get (or has) of a key whose
\* entry has now - timestamp > maxAge returns a miss (false) and removes the
\* entry, so that a has(key) right after it is false; and whatever get returns
\* that is not a miss is the value of an entry that has not expired
C19_ExpiredNeverReturned ==
    [][ \A key \in KeyChoices :
          /\ (ret'.op = "get" /\ ret'.key = key /\ ExpiredEntry(key) /\ get(key)) =>
                /\ ret'.value = Null
                /\ key \notin MapKeys(cache')
                /\ GetResult(cache', key, now') = Null
          /\ (ret'.op = "has" /\ ret'.key = key /\ ExpiredEntry(key) /\ has(key)) =>
                /\ ret'.value = "false"
                /\ key \notin MapKeys(cache')
          /\ (ret'.op = "get" /\ ret'.key = key /\ ret'.value # Null /\ get(key)) =>
                /\ key \in MapKeys(cache)
                /\ ~ExpiredEntry(key)
                /\ ret'.value = MapGet(cache, key).value ]_vars

\* a get of key "a" returned a miss and removed the entry of "a", which had
\* expired; other entries are still cached
C19_Witness ==
    /\ ret.op = "get"
    /\ ret.key = "a"
    /\ ret.value = Null
    /\ ret.removed = {"a"}
    /\ "a" \notin MapKeys(cache)
    /\ Len(cache) >= 1

\* C20: a set on a cache that holds maxSize entries removes one entry, the one
\* whose most recent set is the earliest: at most one key leaves the cache,
\* exactly one when the key that is set is new, and the entry that leaves was
\* not set later than any entry that stays
C20_EvictsOldestSet ==
    [][ \A c \in SetChoices :
          (Len(cache) = maxSize /\ ret'.op = "set" /\ ret'.key = c[1]
              /\ set(c[1], c[2], c[3])) =>
              LET evicted == MapKeys(cache) \ MapKeys(cache')
                  staying == MapKeys(cache) \cap MapKeys(cache')
              IN  /\ Cardinality(evicted) <= 1
                  /\ c[1] \notin MapKeys(cache) => Cardinality(evicted) = 1
                  /\ \A r \in evicted, k \in staying :
                        MapGet(cache, r).timestamp <= MapGet(cache', k).timestamp ]_vars

\* C21: the cache is bounded: whatever set, get, has, delete and clear calls
\* were made, the number of stored entries is at most maxSize, and no key is
\* stored twice
C21_CacheBounded ==
    /\ Len(cache) <= maxSize
    /\ Cardinality(MapKeys(cache)) = Len(cache)

\* a set of a new key on a full cache: one key was evicted, the cache is
\* full again
C21_Witness ==
    /\ ret.op = "set"
    /\ Cardinality(ret.removed) = 1
    /\ ret.key \notin ret.removed
    /\ Len(cache) = maxSize
    /\ cache[Len(cache)].key = ret.key

\* C22: has(key) is a pure existence check: it returns true exactly when the
\* entry of key is stored and has not expired, and it leaves the contents of
\* the cache as they are
C22_HasIsPure ==
    [][ \A key \in KeyChoices :
          (ret'.op = "has" /\ ret'.key = key /\ has(key)) =>
              /\ ret'.value = "true" <=> (key \in MapKeys(cache) /\ ~ExpiredEntry(key))
              /\ cache' = cache ]_vars

\* the params objects with the name/value pairs of p, written in any order
SameProperties(p) == { q \in ParamChoices : Range(q) = Range(p) }

\* C23: generateKey is insensitive to the order of the parameters: the string
\* a call returned is the string of the same endpoint with every params object
\* that has the same name/value pairs, "e?a=1&b=2" for {b: 2, a: 1} and
\* {a: 1, b: 2}; and a value set under the key of one params object is found
\* under the key of every reordering of it
C23_KeyIgnoresOrder ==
    /\ ret.op = "generateKey" =>
          /\ \A q \in SameProperties(ret.params) :
                GeneratedKey(ret.endpoint, q) = ret.value
          /\ (ret.endpoint = "e" /\ Range(ret.params) = { [name |-> "a", value |-> "1"],
                                                         [name |-> "b", value |-> "2"] })
                => ret.value = "e?a=1&b=2"
    /\ ret.op = "set" =>
          \A p \in ParamChoices :
              GeneratedKey("e", p) = ret.key =>
                  \A q \in SameProperties(p) :
                      GetResult(cache, GeneratedKey("e", q), now) = "v1"

\* generateKey("e", {b: 2, a: 1}) was called last, and the cache holds an
\* entry under that key
C23_Witness ==
    /\ ret.op = "generateKey"
    /\ ret.endpoint = "e"
    /\ ret.params = << [name |-> "b", value |-> "2"], [name |-> "a", value |-> "1"] >>
    /\ ret.value = "e?a=1&b=2"
    /\ ret.value \in MapKeys(cache)

\* a 401 response among the fetch calls of the running request
Unauthorized == [name |-> "response", status |-> 401]

\* C24: a request of the ApiService that received a 401 response made no
\* fetch call and waited for no backoff after it, and once it has settled it
\* has rejected with that HttpError and the stored token is gone
C24_UnauthorizedClearsToken ==
    \A i \in 1..Len(outcomes) :
       (apiPc # "new" /\ outcomes[i] = Unauthorized) =>
          /\ i = Len(outcomes)
          /\ Len(sent) = i
          /\ Len(delays) = i - 1
          /\ pc \in {"respInt", "done"}
          /\ pc = "done" => /\ result = Rejected(HttpError(401))
                            /\ authToken = "none"
          /\ apiPc = "done" => authToken = "none"

\* a request that carried the token was retried after a 503, then got a 401,
\* and its caller sees the failure with the token cleared
C24_Witness ==
    /\ apiPc = "done"
    /\ apiCall = "deleteImage"
    /\ apiResult.kind = "rejected"
    /\ apiResult.error = HttpError(401)
    /\ Len(outcomes) = 2
    /\ outcomes[2] = Unauthorized
    /\ "authorization" \in DOMAIN sent[1].headers
    /\ sent[1].headers["authorization"] = {"Bearer t1"}
    /\ authToken = "none"

\* C25: a call of getImages, searchImages or getUserProfile that has settled
\* has resolved, and when its HTTP request failed (a network error, a
\* timeout, retries used up, a status outside 2xx) it has resolved with the
\* mock data of that method
C25_ReadsFallBackToMock ==
    (apiPc = "done" /\ apiCall \in ReadEndpoints) =>
       /\ apiResult.kind = "resolved"
       /\ result.kind = "rejected" =>
             apiResult.mock

\* searchImages resolved with mock data after four fetch calls that all
\* failed, the last on the network
C25_Witness ==
    /\ apiPc = "done"
    /\ apiCall = "searchImages"
    /\ Len(outcomes) = API_CONFIG_retryAttempts + 1
    /\ result = Rejected(NetworkError)
    /\ apiResult.kind = "resolved"
    /\ apiResult.mock

\* ===== properties of the GalleryManager =====
\* two code units are the same letter when case is ignored
SameLetter(c, d) ==
    LET Fold(x) == IF x >= 65 /\ x <= 90 THEN x + 32 ELSE x
    IN  Fold(c) = Fold(d)

\* query is a substring of text when case is ignored
OccursIn(query, text) ==
    \E k \in 0..Len(text) :
       /\ k + Len(query) <= Len(text)
       /\ \A j \in 1..Len(query) : SameLetter(text[k + j], query[j])

\* the texts of a record that a search looks at
SearchedTexts(image) ==
    {image.title, image.description, image.filename} \cup Range(image.tags)

\* C26: filterImages(query) leaves the backing list as it is and makes the
\* filtered view the records of the backing list, in its order, of which the
\* title, the description, a tag or the filename contains the query when case
\* is ignored (every record for the empty query)
C26_FilterIsExactMatch ==
    [][ \A query \in Queries :
           (gret'.op = "filterImages" /\ filterImages(query)) =>
              /\ images' = images
              /\ LET Found(id) == \/ query = << >>
                                  \/ \E text \in SearchedTexts(ImageRecords[id]) :
                                        OccursIn(query, text)
                 IN  filteredImages' = SelectSeq(images, Found) ]_vars

\* a search that two of three records match, one by a tag and one by its
\* filename, both in another case than the query
C26_Witness ==
    /\ gret.op = "filterImages"
    /\ images = << 4, 2, 3 >>
    /\ filteredImages = << 4, 3 >>

\* the number of times id occurs in list
Occurrences(list, id) == Cardinality({ i \in 1..Len(list) : list[i] = id })

\* list holds the same records as other, each as often
IsPermutation(list, other) ==
    \A id \in Range(list) \cup Range(other) : Occurrences(list, id) = Occurrences(other, id)

\* no record of list comes before one that the sort key and order put first
InOrder(list, by, order) ==
    \A i, j \in 1..Len(list) :
       i < j =>
          LET x == SortValue(ImageRecords[list[i]], by)
              y == SortValue(ImageRecords[list[j]], by)
          IN  IF order = "asc" THEN ~Before(y, x, by) ELSE ~Before(x, y, by)

\* C27: when loadImages has taken in a page, and when addImage has run, the
\* filtered view holds the records of the backing list in the order of the
\* active sort key and order; for size ascending the sizes never decrease
C27_FilteredViewSorted ==
    gret.op \in {"loaded", "addImage"} =>
       /\ IsPermutation(filteredImages, images)
       /\ InOrder(filteredImages, sortBy, sortOrder)
       /\ (sortBy = "size" /\ sortOrder = "asc") =>
             \A i \in 1..(Len(filteredImages) - 1) :
                ImageRecords[filteredImages[i]].size <= ImageRecords[filteredImages[i + 1]].size

\* the second page has arrived with size ascending as the sort setting: four
\* records, two of the same size, are in the view by size
C27_Witness ==
    /\ gret.op = "loaded"
    /\ currentPage = 2
    /\ sortBy = "size"
    /\ sortOrder = "asc"
    /\ images = << 4, 1, 2, 3 >>
    /\ filteredImages = << 4, 1, 3, 2 >>

\* the records of list other than record id, in the order of list
Others(list, id) == LET Kept(x) == x # id IN SelectSeq(list, Kept)

\* the statuses a delete request is answered with
DeleteStatuses == {200, 404, 500}

\* C28: when the request of a deleteImage call is answered with a 2xx status
\* the record is gone from the backing list and from the filtered view and
\* every other record stays where it was; when it is answered with another
\* status, or fails on the network, both lists stay as they were and the
\* failure is shown
C28_DeleteRemovesOrReports ==
    [][ \A i \in 1..Len(deletes) :
           /\ \A status \in DeleteStatuses :
                 (gret'.op \in {"deleted", "deleteFailed"} /\ DeleteResponds(i, status)) =>
                    IF status >= 200 /\ status < 300
                    THEN /\ images' = Others(images, deletes[i])
                         /\ filteredImages' = Others(filteredImages, deletes[i])
                         /\ deletes[i] \notin Range(images') \cup Range(filteredImages')
                    ELSE /\ images' = images
                         /\ filteredImages' = filteredImages
                         /\ toast' = "Failed to delete image"
           /\ (gret'.op = "deleteFailed" /\ DeleteRejects(i)) =>
                 /\ images' = images
                 /\ filteredImages' = filteredImages
                 /\ toast' = "Failed to delete image" ]_vars

\* record 3 was deleted while a search showed two of three records
C28_Witness ==
    /\ gret = [op |-> "deleted", id |-> 3]
    /\ toast = "Image deleted successfully!"
    /\ images = << 4, 2 >>
    /\ filteredImages = << 4 >>

\* C29: at most one fetch of the image list is outstanding; a loadImages
\* call made while one is outstanding issues none, and a scroll event
\* received while one is outstanding leaves the current page as it is
C29_OneListFetchAtATime ==
    /\ [](Len(loads) <= 1)
    /\ [][ loads # << >> =>
              /\ (gret'.op = "loadImages" /\ loadImages) => loads' = loads
              /\ \A nearBottom \in BOOLEAN :
                    (gret'.op = "handleScroll" /\ handleScroll(nearBottom)) =>
                       /\ loads' = loads
                       /\ currentPage' = currentPage ]_vars

\* loadImages was called on the second page while the body of its response
\* was still being read, and nothing was issued
C29_Witness ==
    /\ gret.op = "loadImages"
    /\ currentPage = 2
    /\ isLoading
    /\ loads = << [stage |-> "json", page |-> 2] >>

\* C30: while a fetch call of a request is in flight, the first or a retry,
\* the timeout of the request is armed, or has fired and aborted the signal
\* that call was given
C30_TimeoutCoversEveryAttempt ==
    pc = "fetch" => timer \in {"armed", "fired"}

\* ===== properties of discards, re-submission and late additions =====
\* C31: an item that is no longer in the queue (only removeUploadItem takes an
\* item out that is not completed; clearAllUploads does nothing while a batch
\* runs) is not submitted from then on and causes no completion event
C31_RemovedItemNotUploaded ==
    [][ \A id \in 1..Len(items) :
           id \notin Range(uploadQueue) =>
              /\ items'[id].status = "uploading" => items[id].status = "uploading"
              /\ events'[id] = events[id] ]_vars

\* C32: an item whose status is 'completed' keeps that status and causes no
\* further completion event, whatever startUpload calls follow
C32_CompletedNotResubmitted ==
    [][ \A id \in 1..Len(items) :
           items[id].status = "completed" =>
              /\ items'[id].status = "completed"
              /\ events'[id] = events[id] ]_vars

\* the token in the Authorization header of the running request ("none":
\* the request carries no token)
CarriedToken ==
    IF "Authorization" \in DOMAIN config.headers
    THEN config.headers["Authorization"] ELSE "none"

\* C33: a stored token is only removed by logout or by the 401 response to a
\* request that carried this token
C33_StaleUnauthorizedKeepsToken ==
    [][ (authToken # "none" /\ authToken' = "none" /\ loginPc' = loginPc) =>
           CarriedToken = authToken ]_vars

\* C34: the items a running batch hands to uploadFile are the ones that were
\* in the queue when startUpload was called: while the batch runs none is
\* added to them, so an item queued in the meantime waits for the next
\* startUpload
C34_BatchIsQueueAtStart ==
    [][ (isUploading /\ isUploading') => Range(loopArr') \subseteq Range(loopArr) ]_vars

\* C35: a set under a key the cache already holds leaves every other entry
\* of the cache in place, with what was stored for it
C35_OverwriteKeepsOthers ==
    [][ \A c \in SetChoices :
          (ret'.op = "set" /\ ret'.key = c[1] /\ c[1] \in MapKeys(cache)
              /\ set(c[1], c[2], c[3])) =>
              \A k \in MapKeys(cache) \ {c[1]} :
                 /\ k \in MapKeys(cache')
                 /\ MapGet(cache', k) = MapGet(cache, k) ]_vars

\* C36: a client constructed with retryAttempts = 0 dispatches a request
\* once, whatever the outcome of that fetch call
C36_ZeroRetriesHonoured == Len(sent) <= 0 + 1

\* C37: when the fetch of a page n > 1 has failed, the page the next scroll
\* asks for (handleScroll requests currentPage + 1) is n again
C37_FailedPageRequestedAgain ==
    [][ \A i \in 1..Len(loads) :
           (gret'.op = "loadFailed" /\ loads' = RemoveAt(loads, i) /\ loads[i].page > 1) =>
              currentPage' + 1 = loads[i].page ]_vars

\* C38: when every submission settles, a batch that was started ends
\* (isUploading is false again), and at its end every item it handed to
\* uploadFile is completed or failed, none pending or uploading
C38_BatchTerminates ==
    /\ isUploading ~> ~isUploading
    /\ [][ (isUploading /\ ~isUploading') =>
              \A j \in 1..Len(batchLog') :
                 items'[batchLog'[j].id].status \in {"completed", "error"} ]_vars

\* a batch of two items has ended, the first failed on its status and the
\* second completed
C38_Witness ==
    /\ ~isUploading
    /\ batches = 1
    /\ Len(batchLog) = 2
    /\ batchLog[1].cause = "http"
    /\ items[batchLog[1].id].status = "error"
    /\ items[batchLog[2].id].status = "completed"

\* ===== properties of the ModalManager =====
\* C39: when the last call was an open that found a modal active, and every
\* timer has run out since, the modal it opened is the active one and is
\* attached to the document, the one it found is detached, and no other
\* overlay is attached
C39_OpenReplacesActiveModal ==
    (mret.op = "open" /\ mret.replaced # 0 /\ closeTimers = 0 /\ showTimers = 0) =>
       /\ activeModal = mret.id
       /\ mret.id \in attached
       /\ mret.replaced \notin attached
       /\ Cardinality(attached) <= 1
====
